---- MODULE Spec2Model ----
(***************************************************************************)
(* Model of the GovWork (MPLADS analytics) backend: the in-memory refresh  *)
(* job registry and ETL of src/backend/main.py and scripts/etl_to_db.py,   *)
(* and the query handlers of src/backend/main.py that aggregate the four   *)
(* record sets (allocated, expenditure, recommended, completed).           *)
(*                                                                         *)
(* Encoding.  SQL NULL / Python None is NULL for text columns, NullAmt for *)
(* numeric columns, NullDate for date columns, NoDate for a datetime and   *)
(* NoTS for an optional datetime bound.  A raw date string is a record     *)
(* [fmt, d, m, y]: the text laid out as fmt with those numbers.  A         *)
(* datetime is compared through TS, its number of half days since the     *)
(* civil epoch; values read from date-only text are at midnight (even),    *)
(* the clock is read at midday (odd).  Amounts are integers, a ratio is    *)
(* the exact fraction [num, den].                                          *)
(***************************************************************************)
EXTENDS Integers, Sequences, FiniteSets, TLC

VARIABLES db, workdb, raw, refresh_jobs, tasks, resp, txn

vars == <<db, workdb, raw, refresh_jobs, tasks, resp, txn>>

jobvars == <<workdb, raw, refresh_jobs, tasks, txn>>

-----------------------------------------------------------------------------
(* Bounds *)

MaxRows == 2

MaxRadarRows == 3

MaxJobs == 2

MaxCategoryRows == 5

MaxCompleted == 11

MaxWorks == 20

MaxVendors == 4

MaxPad == 1

-----------------------------------------------------------------------------
(* Null encodings *)

NULL == "<null>"

NullAmt == 0 - 1

NoTS == 0 - 1

NoDate == [y |-> 0, m |-> 0, d |-> 0]

NullDate == [fmt |-> "null", d |-> 0, m |-> 0, y |-> 0]

\* Python truthiness of an optional text value: None and '' are falsy.
Truthy(s) == s # NULL /\ s # ""

\* `x or 0` on a numeric column.
OrZero(a) == IF a = NullAmt THEN 0 ELSE a

-----------------------------------------------------------------------------
(* Generic helpers *)

RECURSIVE SeqsUpTo(_, _)
SeqsUpTo(S, n) ==
    IF n = 0 THEN {<<>>}
    ELSE LET shorter == SeqsUpTo(S, n - 1)
         IN  shorter \cup {Append(q, e) : q \in {r \in shorter : Len(r) = n - 1}, e \in S}

RECURSIVE SumSeq(_)
SumSeq(s) == IF s = <<>> THEN 0 ELSE Head(s) + SumSeq(Tail(s))

RECURSIVE SumSet(_, _)
\* sum of f[e] over the finite set S
SumSet(S, f) ==
    IF S = {} THEN 0
    ELSE LET e == CHOOSE x \in S : TRUE IN f[e] + SumSet(S \ {e}, f)

Idx(s) == 1 .. Len(s)

\* sum of OrZero(s[i][field]) over the positions i of s that satisfy P
SumWhere(s, amt(_), P(_)) ==
    SumSet({i \in Idx(s) : P(s[i])}, [i \in Idx(s) |-> amt(s[i])])

CountWhere(s, P(_)) == Cardinality({i \in Idx(s) : P(s[i])})

Min(a, b) == IF a < b THEN a ELSE b

Max(a, b) == IF a > b THEN a ELSE b

-----------------------------------------------------------------------------
(* Dates *)

IsLeap(y) == (y % 4 = 0 /\ y % 100 # 0) \/ y % 400 = 0

DaysInMonth(y, m) ==
    IF m = 2 THEN (IF IsLeap(y) THEN 29 ELSE 28)
    ELSE IF m \in {4, 6, 9, 11} THEN 30 ELSE 31

ValidYMD(y, m, d) ==
    /\ y >= 1 /\ y <= 9999
    /\ m >= 1 /\ m <= 12
    /\ d >= 1 /\ d <= DaysInMonth(y, m)

\* days since the civil epoch of the proleptic Gregorian date dt
Ordinal(dt) ==
    LET yy  == IF dt.m <= 2 THEN dt.y - 1 ELSE dt.y
        era == yy \div 400
        yoe == yy - era * 400
        mp  == (dt.m + 9) % 12
        doy == (153 * mp + 2) \div 5 + dt.d - 1
        doe == yoe * 365 + yoe \div 4 - yoe \div 100 + doy
    IN  era * 146097 + doe

\* a datetime at midnight, in half days
TS(dt) == 2 * Ordinal(dt)

\* the clock: datetime.now(), read at midday of the date nowdate
NowTS(nowdate) == 2 * Ordinal(nowdate) + 1

\* strptime(value, fmt) for one format; NoDate when it raises
Strptime(v, fmt) ==
    IF v.fmt # fmt THEN NoDate
    ELSE LET yr == IF fmt = "d-b-y"
                   THEN (IF v.y >= 69 THEN 1900 + v.y ELSE 2000 + v.y)
                   ELSE v.y
         IN  IF ValidYMD(yr, v.m, v.d) THEN [y |-> yr, m |-> v.m, d |-> v.d]
             ELSE NoDate

Formats == <<"d-b-Y", "d-b-y", "d/m/Y", "Y-m-d">>

RECURSIVE TryFormatsWithoutIso(_, _)
\* TryFormats over the first three formats only
TryFormatsWithoutIso(v, i) ==
    IF i > 3 THEN NoDate
    ELSE LET r == Strptime(v, Formats[i])
         IN  IF r # NoDate THEN r ELSE TryFormatsWithoutIso(v, i + 1)

RECURSIVE TryFormats(_, _)
TryFormats(v, i) ==
    IF i > Len(Formats) THEN NoDate
    ELSE LET r == Strptime(v, Formats[i])
         IN  IF r # NoDate THEN r ELSE TryFormats(v, i + 1)

parse_portal_date(v) ==
    IF v.fmt \in {"null", "empty"} THEN NoDate
    ELSE IF v.fmt \in {"blank", "nan"} THEN NoDate
    ELSE TryFormats(v, 1)

\* A date text as its tokens: numbers (with their count of digits), month
\* abbreviations (val 0 when it is not one), separators, whitespace, words.
Tok(k, digits, val) == [k |-> k, digits |-> digits, val |-> val]

\* the value None, which is not a text
NullText == <<Tok("null", 0, 0)>>

RECURSIVE LStrip(_)
LStrip(t) == IF t # <<>> /\ Head(t).k = "ws" THEN LStrip(Tail(t)) ELSE t

RECURSIVE RStrip(_)
RStrip(t) == IF t # <<>> /\ t[Len(t)].k = "ws" THEN RStrip(SubSeq(t, 1, Len(t) - 1)) ELSE t

\* str(value).strip()
Strip(t) == RStrip(LStrip(t))

\* the directives of strptime: %d is 1..31 in one or two digits, %m 1..12 in
\* one or two digits, %Y four digits, %y two digits, %b a month abbreviation
\* in any letter case
DirD(x) == x.k = "num" /\ x.digits <= 2 /\ x.val >= 1 /\ x.val <= 31

DirM(x) == x.k = "num" /\ x.digits <= 2 /\ x.val >= 1 /\ x.val <= 12

DirB(x) == x.k = "mon" /\ x.val >= 1

DirY4(x) == x.k = "num" /\ x.digits = 4

DirY2(x) == x.k = "num" /\ x.digits = 2

\* the whole text matches the pattern of the format
MatchesFormat(t, fmt) ==
    /\ Len(t) = 5
    /\ CASE fmt = "d-b-Y" -> DirD(t[1]) /\ t[2].k = "-" /\ DirB(t[3]) /\ t[4].k = "-" /\ DirY4(t[5])
         [] fmt = "d-b-y" -> DirD(t[1]) /\ t[2].k = "-" /\ DirB(t[3]) /\ t[4].k = "-" /\ DirY2(t[5])
         [] fmt = "d/m/Y" -> DirD(t[1]) /\ t[2].k = "/" /\ DirM(t[3]) /\ t[4].k = "/" /\ DirY4(t[5])
         [] fmt = "Y-m-d" -> DirY4(t[1]) /\ t[2].k = "-" /\ DirM(t[3]) /\ t[4].k = "-" /\ DirD(t[5])

\* the text of a column value as the handlers' date records: its layout
\* and the numbers it carries
Scan(value) ==
    IF value = NullText THEN [fmt |-> "null", d |-> 0, m |-> 0, y |-> 0]
    ELSE IF value = <<>> THEN [fmt |-> "empty", d |-> 0, m |-> 0, y |-> 0]
    ELSE LET t == Strip(value)
         IN  IF t = <<>> THEN [fmt |-> "blank", d |-> 0, m |-> 0, y |-> 0]
             ELSE IF Len(t) = 1 /\ t[1].k = "nan" THEN [fmt |-> "nan", d |-> 0, m |-> 0, y |-> 0]
             ELSE IF \E i \in 1 .. 4 : MatchesFormat(t, Formats[i])
             THEN LET fmt == Formats[CHOOSE i \in 1 .. 4 : MatchesFormat(t, Formats[i])]
                  IN  IF fmt = "Y-m-d"
                      THEN [fmt |-> fmt, d |-> t[5].val, m |-> t[3].val, y |-> t[1].val]
                      ELSE [fmt |-> fmt, d |-> t[1].val, m |-> t[3].val, y |-> t[5].val]
             ELSE [fmt |-> "other", d |-> 0, m |-> 0, y |-> 0]

safe_month_key(dt) == dt.y * 100 + dt.m

\* the plausibility test of _clamp_date_range and of the inline filters
Plausible(dt, now) == dt.y >= 2000 /\ ~(TS(dt) > now)

month_delta_cutoff(months, now) == now - 2 * (months * 31)

parse_iso_date(v) ==
    IF v.fmt \in {"null", "empty"} THEN NoTS
    ELSE IF v.fmt = "Y-m-d" /\ ValidYMD(v.y, v.m, v.d)
         THEN TS([y |-> v.y, m |-> v.m, d |-> v.d])
         ELSE NoTS

dt_in_range(dt, from_dt, to_dt) ==
    IF from_dt # NoTS /\ TS(dt) < from_dt THEN FALSE
    ELSE IF to_dt # NoTS /\ TS(dt) > to_dt THEN FALSE
    ELSE TRUE

-----------------------------------------------------------------------------
(* Python dicts (insertion ordered) as sequences of <<key, value>> pairs *)

DictHas(d, k) == \E i \in Idx(d) : d[i][1] = k

DictGet(d, k, default) ==
    IF DictHas(d, k) THEN d[CHOOSE i \in Idx(d) : d[i][1] = k][2] ELSE default

DictPut(d, k, v) ==
    IF DictHas(d, k)
    THEN [d EXCEPT ![CHOOSE i \in Idx(d) : d[i][1] = k] = <<k, v>>]
    ELSE Append(d, <<k, v>>)

\* d[k] = d.get(k, 0) + amt, and defaultdict(float)[k] += amt
DictAdd(d, k, amt) == DictPut(d, k, DictGet(d, k, 0) + amt)

DictKeys(d) == {d[i][1] : i \in Idx(d)}

RECURSIVE DictValueSum(_)
DictValueSum(d) == IF d = <<>> THEN 0 ELSE Head(d)[2] + DictValueSum(Tail(d))

RECURSIVE InsertDesc(_, _)
\* insert item e after every item of the sorted s whose value is >= e's
InsertDesc(s, e) ==
    IF s = <<>> THEN <<e>>
    ELSE IF Head(s)[2] >= e[2] THEN <<Head(s)>> \o InsertDesc(Tail(s), e)
    ELSE <<e>> \o s

RECURSIVE SortFrom(_, _, _)
SortFrom(items, i, acc) ==
    IF i > Len(items) THEN acc ELSE SortFrom(items, i + 1, InsertDesc(acc, items[i]))

\* sorted(d.items(), key=lambda kv: kv[1], reverse=True): stable, descending
SortedByValueDesc(items) == SortFrom(items, 1, <<>>)

RECURSIVE SortedKeys(_)
\* sorted(monthly.keys()) for a set of integer keys
SortedKeys(S) ==
    IF S = {} THEN <<>>
    ELSE LET lo == CHOOSE x \in S : \A z \in S : x <= z
         IN  <<lo>> \o SortedKeys(S \ {lo})

Take(s, n) == SubSeq(s, 1, Min(n, Len(s)))

\* [{"month": m, "spent": monthly[m]} for m in sorted(monthly.keys())]
MonthlySeries(monthly) ==
    LET ks == SortedKeys(DictKeys(monthly))
    IN  [i \in Idx(ks) |-> [month |-> ks[i], spent |-> DictGet(monthly, ks[i], 0)]]

-----------------------------------------------------------------------------
(* Ratios: exact fractions num/den with den > 0 *)

RECURSIVE GCD(_, _)
GCD(a, b) == IF b = 0 THEN a ELSE GCD(b, a % b)

\* the fraction n/d in lowest terms
Ratio(n, d) == LET g == GCD(n, d) IN [num |-> n \div g, den |-> d \div g]

Zero == Ratio(0, 1)

\* (n / d * 100) if d else 0
PctOrZero(n, d) == IF d # 0 THEN LET r == Ratio(n, d) IN Ratio(r.num * 100, r.den) ELSE Zero

IsZero(r) == r.num = 0

\* r >= k and r <= k for an integer k
RGeq(r, k) == r.num >= k * r.den

RLeq(r, k) == r.num <= k * r.den

\* comparison, sum and integer quotient of ratios
RLeqR(a, b) == a.num * b.den <= b.num * a.den

RAdd(a, b) == Ratio(a.num * b.den + b.num * a.den, a.den * b.den)

RDivInt(r, n) == Ratio(r.num, r.den * n)

\* round(x, 2) of a ratio, in hundredths
Round2(r) == (2 * 100 * r.num + r.den) \div (2 * r.den)

-----------------------------------------------------------------------------
(* Shared pieces of the query handlers *)

\* `r[0] or "(Unknown)"`
ActivityOf(a) == IF Truthy(a) THEN a ELSE "(Unknown)"

\* `r[3] or ""`
OrEmpty(s) == IF Truthy(s) THEN s ELSE ""

\* `attach_id is not None and str(attach_id).strip() != ""`
HasProof(a) == a # NULL /\ a # "" /\ a # " "

\* `if dt and not _dt_in_range(dt, from_dt, to_dt): continue`
RangeSkips(rawdate, from_dt, to_dt) ==
    LET dt == parse_portal_date(rawdate)
    IN  dt # NoDate /\ ~dt_in_range(dt, from_dt, to_dt)

\* EffectiveFrom with an explicit from_date taking precedence over the window
EffectiveFromExplicitFirst(months, from_date, now) ==
    LET from_dt == parse_iso_date(from_date)
    IN  IF from_dt # NoTS THEN from_dt
        ELSE IF months # NullAmt /\ months > 0 THEN month_delta_cutoff(months, now)
        ELSE from_dt

\* from_dt after the months window has been applied
EffectiveFrom(months, from_date, now) ==
    LET from_dt == parse_iso_date(from_date)
    IN  IF months # NullAmt /\ months > 0
        THEN LET cutoff == month_delta_cutoff(months, now)
             IN  IF from_dt # NoTS THEN Max(from_dt, cutoff) ELSE cutoff
        ELSE from_dt

\* the rows an SQL statement with the optional equality filters returns
Matches(r, col, param) == ~Truthy(param) \/ (r[col] # NULL /\ r[col] = param)

ScopeRows(rows, state, mp, vendor) ==
    SelectSeq(rows, LAMBDA r : /\ Matches(r, "STATE_NAME", state)
                               /\ Matches(r, "MP_NAME", mp)
                               /\ Matches(r, "VENDOR_NAME", vendor))

ScopeRowsNoVendor(rows, state, mp) ==
    SelectSeq(rows, LAMBDA r : /\ Matches(r, "STATE_NAME", state)
                               /\ Matches(r, "MP_NAME", mp))

-----------------------------------------------------------------------------
(* get_category_radar *)

SpendThreshold == 20000000

NewCat(activity) ==
    [activity |-> activity, spent |-> 0, mps |-> {}, vendors |-> {}, vendor_spend |-> <<>>]

RadarAcc0 == [total_spend |-> 0, all_mps |-> {}, cats |-> <<>>]

\* RadarExpStep with `total_spend += amt` moved above the range test
RadarExpStepTotalBeforeRange(acc, r, from_dt, to_dt) ==
    LET activity    == ActivityOf(r.ACTIVITY_NAME)
        amt         == OrZero(r.FUND_DISBURSED_AMT)
        mp_name     == OrEmpty(r.MP_NAME)
        vendor_name == OrEmpty(r.VENDOR_NAME)
        c0 == DictGet(acc.cats, activity, NewCat(activity))
        c1 == [c0 EXCEPT !.spent = @ + amt,
                         !.mps = IF mp_name # "" THEN @ \cup {mp_name} ELSE @]
        c2 == IF vendor_name # ""
              THEN [c1 EXCEPT !.vendors = @ \cup {vendor_name},
                              !.vendor_spend = DictAdd(@, vendor_name, amt)]
              ELSE c1
    IN  IF RangeSkips(r.EXPENDITURE_DATE, from_dt, to_dt)
        THEN [acc EXCEPT !.total_spend = @ + amt]
        ELSE [total_spend |-> acc.total_spend + amt,
              all_mps |-> IF mp_name # "" THEN acc.all_mps \cup {mp_name} ELSE acc.all_mps,
              cats |-> DictPut(acc.cats, activity, c2)]

\* one iteration of the expenditure loop
RadarExpStep(acc, r, from_dt, to_dt) ==
    LET activity    == ActivityOf(r.ACTIVITY_NAME)
        amt         == OrZero(r.FUND_DISBURSED_AMT)
        mp_name     == OrEmpty(r.MP_NAME)
        vendor_name == OrEmpty(r.VENDOR_NAME)
        c0 == DictGet(acc.cats, activity, NewCat(activity))
        c1 == [c0 EXCEPT !.spent = @ + amt,
                         !.mps = IF mp_name # "" THEN @ \cup {mp_name} ELSE @]
        c2 == IF vendor_name # ""
              THEN [c1 EXCEPT !.vendors = @ \cup {vendor_name},
                              !.vendor_spend = DictAdd(@, vendor_name, amt)]
              ELSE c1
    IN  IF RangeSkips(r.EXPENDITURE_DATE, from_dt, to_dt) THEN acc
        ELSE [total_spend |-> acc.total_spend + amt,
              all_mps |-> IF mp_name # "" THEN acc.all_mps \cup {mp_name} ELSE acc.all_mps,
              cats |-> DictPut(acc.cats, activity, c2)]

RECURSIVE RadarExpLoop(_, _, _, _, _)
RadarExpLoop(rows, i, acc, from_dt, to_dt) ==
    IF i > Len(rows) THEN acc
    ELSE RadarExpLoop(rows, i + 1, RadarExpStep(acc, rows[i], from_dt, to_dt), from_dt, to_dt)

RECURSIVE CountLoop(_, _, _, _, _, _)
\* rec_counts / comp_counts: per activity count of the rows the range keeps
CountLoop(rows, i, counts, datecol, from_dt, to_dt) ==
    IF i > Len(rows) THEN counts
    ELSE LET r == rows[i]
         IN  CountLoop(rows, i + 1,
                       IF RangeSkips(r[datecol], from_dt, to_dt) THEN counts
                       ELSE DictAdd(counts, ActivityOf(r.ACTIVITY_NAME), 1),
                       datecol, from_dt, to_dt)

RECURSIVE ProofLoop(_, _, _, _, _)
ProofLoop(rows, i, counts, from_dt, to_dt) ==
    IF i > Len(rows) THEN counts
    ELSE LET r == rows[i]
         IN  ProofLoop(rows, i + 1,
                       IF RangeSkips(r.ACTUAL_END_DATE, from_dt, to_dt) \/ ~HasProof(r.ATTACH_ID)
                       THEN counts
                       ELSE DictAdd(counts, ActivityOf(r.ACTIVITY_NAME), 1),
                       from_dt, to_dt)

RECURSIVE BaselineLoopRawActivity(_, _, _, _, _)
\* BaselineLoop keyed by the stored activity, without the "(Unknown)" bucket
BaselineLoopRawActivity(rows, i, acc, from_dt, to_dt) ==
    IF i > Len(rows) THEN acc
    ELSE LET r == rows[i]
             amt == OrZero(r.FUND_DISBURSED_AMT)
         IN  BaselineLoopRawActivity(rows, i + 1,
                          IF RangeSkips(r.EXPENDITURE_DATE, from_dt, to_dt) THEN acc
                          ELSE [total_spent |-> acc.total_spent + amt,
                                by_activity |-> DictAdd(acc.by_activity,
                                                        OrEmpty(r.ACTIVITY_NAME), amt)],
                          from_dt, to_dt)

RECURSIVE BaselineLoop(_, _, _, _, _)
BaselineLoop(rows, i, acc, from_dt, to_dt) ==
    IF i > Len(rows) THEN acc
    ELSE LET r == rows[i]
             amt == OrZero(r.FUND_DISBURSED_AMT)
         IN  BaselineLoop(rows, i + 1,
                          IF RangeSkips(r.EXPENDITURE_DATE, from_dt, to_dt) THEN acc
                          ELSE [total_spent |-> acc.total_spent + amt,
                                by_activity |-> DictAdd(acc.by_activity,
                                                        ActivityOf(r.ACTIVITY_NAME), amt)],
                          from_dt, to_dt)

NoLift == [defined |-> FALSE, num |-> 0, den |-> 1]

\* `nat_share > 0` for nat_share = nat_spent / total_spent, total_spent # 0
PositiveShare(nat_spent, total_spent) ==
    (nat_spent > 0 /\ total_spent > 0) \/ (nat_spent < 0 /\ total_spent < 0)

\* Lift as the quotient of the spends instead of the quotient of the shares
LiftOfSpends(hasBaseline, baseline, activity, spent, total_spend) ==
    IF hasBaseline /\ baseline.total_spent # 0
    THEN LET nat_spent == DictGet(baseline.by_activity, activity, 0)
         IN  IF PositiveShare(nat_spent, baseline.total_spent)
             THEN [defined |-> TRUE] @@ Ratio(spent, nat_spent)
             ELSE NoLift
    ELSE NoLift

\* lift_vs_national of one category
Lift(hasBaseline, baseline, activity, spent, total_spend) ==
    IF hasBaseline /\ baseline.total_spent # 0
    THEN LET nat_spent   == DictGet(baseline.by_activity, activity, 0)
             nat_share   == Ratio(nat_spent, baseline.total_spent)
             state_share == IF total_spend # 0 THEN Ratio(spent, total_spend) ELSE Zero
         IN  IF PositiveShare(nat_spent, baseline.total_spent)
             THEN [defined |-> TRUE] @@
                  Ratio(state_share.num * nat_share.den, state_share.den * nat_share.num)
             ELSE NoLift
    ELSE NoLift

Top3Sum(vendor_spend) == DictValueSum(Take(SortedByValueDesc(vendor_spend), 3))

Top1Sum(vendor_spend) == DictValueSum(Take(SortedByValueDesc(vendor_spend), 1))

\* the entry appended to `categories` for one item of cats
CategoryEntry(c, total_spend, rec_counts, comp_counts, proof_counts, hasBaseline, baseline) ==
    LET rec    == DictGet(rec_counts, c.activity, 0)
        comp   == DictGet(comp_counts, c.activity, 0)
        proofs == DictGet(proof_counts, c.activity, 0)
    IN  [activity |-> c.activity,
         spent |-> c.spent,
         share_pct |-> PctOrZero(c.spent, total_spend),
         mp_count |-> Cardinality(c.mps),
         vendor_count |-> Cardinality(c.vendors),
         recommended_works |-> rec,
         completed_works |-> comp,
         completion_pct |-> PctOrZero(comp, rec),
         proofs |-> proofs,
         transparency_pct |-> PctOrZero(proofs, comp),
         top1_vendor_pct |-> PctOrZero(Top1Sum(c.vendor_spend), c.spent),
         top3_vendor_pct |-> PctOrZero(Top3Sum(c.vendor_spend), c.spent),
         lift_vs_national |-> Lift(hasBaseline, baseline, c.activity, c.spent, total_spend),
         vendor_spend |-> c.vendor_spend]

\* categories.sort(key=lambda x: x["spent"], reverse=True)
SortCategories(cats) ==
    LET keyed  == [i \in Idx(cats) |-> <<i, cats[i].spent>>]
        sorted == SortedByValueDesc(keyed)
    IN  [i \in Idx(cats) |-> cats[sorted[i][1]]]


\* StateLiftFlag without the test on the number of MPs
StateLiftFlagAnyMpCount(c) ==
    LET l == c.lift_vs_national
    IN  IF l.defined /\ RGeq(l, 2) /\ c.spent >= SpendThreshold
        THEN <<[code |-> "state_lift",
                severity |-> IF RGeq(l, 3) THEN "high" ELSE "warning",
                activity |-> c.activity]>>
        ELSE <<>>

\* lines 1478-1487
StateLiftFlag(c) ==
    LET l == c.lift_vs_national
    IN  IF l.defined /\ RGeq(l, 2) /\ c.spent >= SpendThreshold /\ c.mp_count >= 5
        THEN <<[code |-> "state_lift",
                severity |-> IF RGeq(l, 3) THEN "high" ELSE "warning",
                activity |-> c.activity]>>
        ELSE <<>>

\* LowTransparencyFlag requiring more than ten completed works
LowTransparencyFlagAboveTen(c) ==
    IF c.spent >= SpendThreshold /\ c.completed_works > 10 /\ RLeq(c.transparency_pct, 30)
    THEN <<[code |-> "high_spend_low_transparency",
            severity |-> IF RLeq(c.transparency_pct, 15) THEN "high" ELSE "warning",
            activity |-> c.activity]>>
    ELSE <<>>

\* lines 1488-1497
LowTransparencyFlag(c) ==
    IF c.spent >= SpendThreshold /\ c.completed_works >= 10 /\ RLeq(c.transparency_pct, 30)
    THEN <<[code |-> "high_spend_low_transparency",
            severity |-> IF RLeq(c.transparency_pct, 15) THEN "high" ELSE "warning",
            activity |-> c.activity]>>
    ELSE <<>>

\* lines 1498-1507
VendorConcentrationFlag(c) ==
    IF c.spent >= SpendThreshold /\ RGeq(c.top3_vendor_pct, 70) /\ c.vendor_count >= 3
    THEN <<[code |-> "vendor_concentration",
            severity |-> IF RGeq(c.top3_vendor_pct, 85) THEN "high" ELSE "warning",
            activity |-> c.activity]>>
    ELSE <<>>

RECURSIVE CategoryFlagsConcentrationFirst(_, _, _)
\* the flags loop with the vendor concentration rule evaluated first
CategoryFlagsConcentrationFirst(categories, i, flags) ==
    IF i > Len(categories) THEN flags
    ELSE LET c == categories[i]
         IN  CategoryFlagsConcentrationFirst(categories, i + 1,
                           flags \o VendorConcentrationFlag(c) \o StateLiftFlag(c)
                                 \o LowTransparencyFlag(c))

RECURSIVE CategoryFlags(_, _, _)
\* the flags loop over the returned categories
CategoryFlags(categories, i, flags) ==
    IF i > Len(categories) THEN flags
    ELSE LET c == categories[i]
         IN  CategoryFlags(categories, i + 1,
                           flags \o StateLiftFlag(c) \o LowTransparencyFlag(c)
                                 \o VendorConcentrationFlag(c))

\* HasBaseline with the tests on mp and vendor left out
HasBaselineForAnyStateScope(state, mp, vendor) == Truthy(state)

\* `if state and not mp and not vendor`
HasBaseline(state, mp, vendor) == Truthy(state) /\ ~Truthy(mp) /\ ~Truthy(vendor)

get_category_radar(D, state, mp, vendor, months, from_date, to_date, limit, now) ==
    LET from_dt  == EffectiveFrom(months, from_date, now)
        to_dt    == parse_iso_date(to_date)
        exp_rows == ScopeRows(D.expenditure, state, mp, vendor)
        agg      == RadarExpLoop(exp_rows, 1, RadarAcc0, from_dt, to_dt)
        rec_rows == ScopeRowsNoVendor(D.recommended, state, mp)
        rec_counts == CountLoop(rec_rows, 1, <<>>, "RECOMMENDATION_DATE", from_dt, to_dt)
        comp_rows == ScopeRowsNoVendor(D.completed, state, mp)
        comp_counts == CountLoop(comp_rows, 1, <<>>, "ACTUAL_END_DATE", from_dt, to_dt)
        proof_counts == ProofLoop(comp_rows, 1, <<>>, from_dt, to_dt)
        hasBaseline == HasBaseline(state, mp, vendor)
        baseline == IF hasBaseline
                    THEN BaselineLoop(D.expenditure, 1,
                                      [total_spent |-> 0, by_activity |-> <<>>], from_dt, to_dt)
                    ELSE [total_spent |-> 0, by_activity |-> <<>>]
        all_categories ==
            [i \in Idx(agg.cats) |->
                CategoryEntry(agg.cats[i][2], agg.total_spend, rec_counts, comp_counts,
                              proof_counts, hasBaseline, baseline)]
        categories == Take(SortCategories(all_categories), Max(1, Min(limit, 200)))
    IN  [status |-> 200,
         from_dt |-> from_dt, to_dt |-> to_dt, now |-> now,
         scope |-> [state |-> state, mp |-> mp, vendor |-> vendor, activity |-> NULL],
         total_spent |-> agg.total_spend,
         mp_count |-> Cardinality(agg.all_mps),
         all_categories |-> all_categories,
         categories |-> categories,
         rec_counts |-> rec_counts, comp_counts |-> comp_counts, proof_counts |-> proof_counts,
         flags |-> CategoryFlags(categories, 1, <<>>)]

-----------------------------------------------------------------------------
(* get_category_radar_drilldown *)

DrillAcc0 == [total_spent |-> 0, mp_spend |-> <<>>, vendor_spend |-> <<>>, monthly |-> <<>>]

\* one iteration of the expenditure loop
DrillExpStep(acc, r, from_dt, to_dt) ==
    LET mp_name     == OrEmpty(r.MP_NAME)
        vendor_name == OrEmpty(r.VENDOR_NAME)
        amt         == OrZero(r.FUND_DISBURSED_AMT)
        dt          == parse_portal_date(r.EXPENDITURE_DATE)
    IN  IF RangeSkips(r.EXPENDITURE_DATE, from_dt, to_dt) THEN acc
        ELSE [total_spent |-> acc.total_spent + amt,
              mp_spend |-> IF mp_name # "" THEN DictAdd(acc.mp_spend, mp_name, amt)
                           ELSE acc.mp_spend,
              vendor_spend |-> IF vendor_name # ""
                               THEN DictAdd(acc.vendor_spend, vendor_name, amt)
                               ELSE acc.vendor_spend,
              monthly |-> IF dt # NoDate THEN DictAdd(acc.monthly, safe_month_key(dt), amt)
                          ELSE acc.monthly]

RECURSIVE DrillExpLoop(_, _, _, _, _)
DrillExpLoop(rows, i, acc, from_dt, to_dt) ==
    IF i > Len(rows) THEN acc
    ELSE DrillExpLoop(rows, i + 1, DrillExpStep(acc, rows[i], from_dt, to_dt), from_dt, to_dt)

ActivityRows(rows, activity) ==
    SelectSeq(rows, LAMBDA r : r.ACTIVITY_NAME # NULL /\ r.ACTIVITY_NAME = activity)

get_category_radar_drilldown(D, activity, state, mp, vendor, months, from_date, to_date, now) ==
    LET from_dt  == EffectiveFrom(months, from_date, now)
        to_dt    == parse_iso_date(to_date)
        exp_rows == ScopeRows(ActivityRows(D.expenditure, activity), state, mp, vendor)
        agg      == DrillExpLoop(exp_rows, 1, DrillAcc0, from_dt, to_dt)
        rec_rows == ScopeRowsNoVendor(ActivityRows(D.recommended, activity), state, mp)
        rec_count == CountWhere(rec_rows,
                        LAMBDA r : ~RangeSkips(r.RECOMMENDATION_DATE, from_dt, to_dt))
        comp_rows == ScopeRowsNoVendor(ActivityRows(D.completed, activity), state, mp)
        comp_count == CountWhere(comp_rows,
                        LAMBDA r : ~RangeSkips(r.ACTUAL_END_DATE, from_dt, to_dt))
        proof_count == CountWhere(comp_rows,
                        LAMBDA r : ~RangeSkips(r.ACTUAL_END_DATE, from_dt, to_dt)
                                   /\ HasProof(r.ATTACH_ID))
    IN  [status |-> 200,
         from_dt |-> from_dt, to_dt |-> to_dt, now |-> now,
         scope |-> [state |-> state, mp |-> mp, vendor |-> vendor, activity |-> activity],
         total_spent |-> agg.total_spent,
         recommended_works |-> rec_count,
         completed_works |-> comp_count,
         completion_pct |-> PctOrZero(comp_count, rec_count),
         proofs |-> proof_count,
         transparency_pct |-> PctOrZero(proof_count, comp_count),
         monthly_spent |-> MonthlySeries(agg.monthly),
         mp_spend |-> agg.mp_spend,
         vendor_spend |-> agg.vendor_spend,
         top_mps |-> Take(SortedByValueDesc(agg.mp_spend), 15),
         top_vendors |-> Take(SortedByValueDesc(agg.vendor_spend), 15)]


-----------------------------------------------------------------------------
(* SQL aggregates *)

\* SUM(col): NULL when no row has a value
NullAdd(a, b) == IF a = NullAmt THEN b ELSE IF b = NullAmt THEN a ELSE a + b

RECURSIVE SqlSum(_, _)
SqlSum(rows, col) ==
    IF rows = <<>> THEN NullAmt ELSE NullAdd(Head(rows)[col], SqlSum(Tail(rows), col))

\* COUNT(col): the rows whose col is not NULL
SqlCount(rows, col) == CountWhere(rows, LAMBDA r : r[col] # NULL)

ColEq(rows, col, v) == SelectSeq(rows, LAMBDA r : r[col] # NULL /\ r[col] = v)

\* WHERE (:state IS NULL OR STATE_NAME = :state)
StateRows(rows, state) ==
    SelectSeq(rows, LAMBDA r : state = NULL \/ (r.STATE_NAME # NULL /\ r.STATE_NAME = state))

RECURSIVE GroupSumLoop(_, _, _, _)
GroupSumLoop(rows, i, keycol, groups) ==
    IF i > Len(rows) THEN groups
    ELSE LET r == rows[i]
         IN  GroupSumLoop(rows, i + 1, keycol,
                 DictPut(groups, r[keycol],
                         NullAdd(DictGet(groups, r[keycol], NullAmt), r.FUND_DISBURSED_AMT)))

\* SELECT key, SUM(FUND_DISBURSED_AMT) ... GROUP BY key ORDER BY amount DESC LIMIT n
\* (NULL sums sort last)
TopGroups(rows, keycol, n) == Take(SortedByValueDesc(GroupSumLoop(rows, 1, keycol, <<>>)), n)

RECURSIVE OrZeroSum(_)
\* sum([(r[1] or 0) for r in rows])
OrZeroSum(items) == IF items = <<>> THEN 0 ELSE OrZero(Head(items)[2]) + OrZeroSum(Tail(items))

HasNullSum(items) == \E i \in Idx(items) : items[i][2] = NullAmt

-----------------------------------------------------------------------------
(* Exceptions and their translation by the handlers' except clauses *)

HTTPException(code) == [kind |-> "HTTPException", status |-> code]

TypeError == [kind |-> "TypeError", status |-> 0]

OperationalError == [kind |-> "OperationalError", status |-> 0]

Failure(code) == [status |-> code]

\* `except Exception as e: raise HTTPException(status_code=500, ...)`
CatchAll(e) == Failure(500)

\* `except HTTPException: raise` before the catch-all
ReraiseHTTP(e) == IF e.kind = "HTTPException" THEN Failure(e.status) ELSE CatchAll(e)

-----------------------------------------------------------------------------
(* Monthly series of the profile handlers *)

RECURSIVE ParsedLoop(_, _, _, _)
\* the (dt, amount) pairs of the rows whose date parses, in row order
ParsedLoop(rows, i, datecol, acc) ==
    IF i > Len(rows) THEN acc
    ELSE LET dt == parse_portal_date(rows[i][datecol])
         IN  ParsedLoop(rows, i + 1, datecol,
                        IF dt # NoDate
                        THEN Append(acc, [dt |-> dt, amt |-> OrZero(rows[i].FUND_DISBURSED_AMT)])
                        ELSE acc)

RECURSIVE MonthlyLoop(_, _, _)
\* for dt, amt in pairs: monthly[_safe_month_key(dt)] += amt
MonthlyLoop(pairs, i, monthly) ==
    IF i > Len(pairs) THEN monthly
    ELSE MonthlyLoop(pairs, i + 1, DictAdd(monthly, safe_month_key(pairs[i].dt), pairs[i].amt))

\* [(dt, amt) for (dt, amt) in parsed if dt.year >= 2000 and dt <= datetime.now()]
PlausiblePairs(parsed, now) == SelectSeq(parsed, LAMBDA p : Plausible(p.dt, now))

DatesOf(parsed) == [i \in Idx(parsed) |-> parsed[i].dt]

clamp_date_range(dts, now) == SelectSeq(dts, LAMBDA dt : Plausible(dt, now))

\* zip(dts, amounts): pairs by position, as long as the shorter list
Zip(dts, amounts) ==
    [i \in 1 .. Min(Len(dts), Len(amounts)) |-> [dt |-> dts[i], amt |-> amounts[i]]]

-----------------------------------------------------------------------------
(* get_global_stats *)

get_global_stats(D) ==
    LET total_allocated == SqlSum(D.allocated, "ALLOCATED_AMT")
        total_spent     == SqlSum(D.expenditure, "FUND_DISBURSED_AMT")
        recommended     == Len(D.recommended)
        completed       == Len(D.completed)
    IN  \* result[1] / result[0] with result[1] None raises TypeError
        IF OrZero(total_allocated) # 0 /\ total_spent = NullAmt THEN CatchAll(TypeError)
        ELSE [status |-> 200,
              total_allocated |-> total_allocated,
              total_spent |-> total_spent,
              total_works_recommended |-> recommended,
              total_works_completed |-> completed,
              utilization_percentage |-> PctOrZero(OrZero(total_spent), OrZero(total_allocated)),
              completion_percentage |-> PctOrZero(completed, recommended)]

-----------------------------------------------------------------------------
(* get_mps_list *)

\* one row of the joined SELECT, then the dict appended to `mps`
MpListEntry(D, a) ==
    LET works_recommended == Len(ColEq(D.recommended, "MP_NAME", a.MP_NAME))
        total_spent       == OrZero(SqlSum(ColEq(D.expenditure, "MP_NAME", a.MP_NAME),
                                           "FUND_DISBURSED_AMT"))
        works_completed   == Len(ColEq(D.completed, "MP_NAME", a.MP_NAME))
        works_with_proof  == SqlCount(ColEq(D.completed, "MP_NAME", a.MP_NAME), "ATTACH_ID")
        allocated         == IF OrZero(a.ALLOCATED_AMT) # 0 THEN a.ALLOCATED_AMT ELSE 1
        recommended_count == IF works_recommended # 0 THEN works_recommended ELSE 1
    IN  [name |-> a.MP_NAME,
         state |-> a.STATE_NAME,
         allocated |-> a.ALLOCATED_AMT,
         recommended_count |-> works_recommended,
         spent |-> total_spent,
         completed_count |-> works_completed,
         proofs_count |-> works_with_proof,
         utilization_rate |-> Round2(Ratio(total_spent * 100, allocated)),
         completion_rate |-> Round2(Ratio(works_completed * 100, recommended_count)),
         transparency_score |-> Round2(PctOrZero(works_with_proof, works_completed))]

get_mps_list(D, limit, sort_by) ==
    \* `ORDER BY completion_rate DESC` / `transparency_score DESC` name no column of the SELECT
    IF sort_by \in {"completion", "transparency"} THEN CatchAll(OperationalError)
    ELSE LET entries == [i \in Idx(D.allocated) |-> MpListEntry(D, D.allocated[i])]
             keyed   == [i \in Idx(entries) |-> <<i, entries[i].spent>>]
             ordered == SortedByValueDesc(keyed)
             rows    == [i \in Idx(entries) |-> entries[ordered[i][1]]]
         IN  [status |-> 200, mps |-> IF limit < 0 THEN rows ELSE Take(rows, limit)]

-----------------------------------------------------------------------------
(* get_mp_detail *)

get_mp_detail(D, mp_name) ==
    LET basics == ColEq(D.allocated, "MP_NAME", mp_name)
        basic  == basics[1]
        comp   == ColEq(D.completed, "MP_NAME", mp_name)
        total_spent == OrZero(SqlSum(ColEq(D.expenditure, "MP_NAME", mp_name),
                                     "FUND_DISBURSED_AMT"))
    IN  \* the 404 is raised inside the try block whose only clause is the catch-all
        IF basics = <<>> THEN CatchAll(HTTPException(404))
        ELSE [status |-> 200,
              allocated |-> basic.ALLOCATED_AMT,
              spent |-> total_spent,
              utilization |-> PctOrZero(total_spent, OrZero(basic.ALLOCATED_AMT)),
              works_completed |-> Len(comp),
              proofs_uploaded |-> SqlCount(comp, "ATTACH_ID"),
              transparency_score |-> PctOrZero(SqlCount(comp, "ATTACH_ID"), Len(comp))]

-----------------------------------------------------------------------------
(* get_mp_insights *)

\* SELECT SUM(e.FUND_DISBURSED_AMT) FROM expenditure e JOIN completed c ON the
\* work id WHERE e.MP_NAME = :mp_name AND (c.ATTACH_ID IS NULL OR c.ATTACH_ID = '')
\* `or 0`: one term per joined pair of rows
spend_no_proof(D, mp_name) ==
    LET E == D.expenditure
        C == D.completed
        pairs == {p \in Idx(E) \X Idx(C) :
                     /\ E[p[1]].WORK_RECOMMENDATION_DTL_ID # NULL
                     /\ E[p[1]].WORK_RECOMMENDATION_DTL_ID = C[p[2]].WORK_RECOMMENDATION_DTL_ID
                     /\ E[p[1]].MP_NAME # NULL /\ E[p[1]].MP_NAME = mp_name
                     /\ (C[p[2]].ATTACH_ID = NULL \/ C[p[2]].ATTACH_ID = "")}
    IN  SumSet(pairs, [p \in pairs |-> OrZero(E[p[1]].FUND_DISBURSED_AMT)])

\* a SQL NULL among the values AVG() aggregates
NullRatio == [num |-> 0, den |-> 0]

\* `COALESCE(e.spent, 0) / a.ALLOCATED_AMT * 100`: SQLite divides two INTEGER
\* values as integers; pandas types a column INTEGER when every value of it
\* is integral and REAL otherwise
SqlUtilization(spent, allocated, amount_type) ==
    IF amount_type = "INTEGER" THEN Ratio((spent \div allocated) * 100, 1)
    ELSE PctOrZero(spent, allocated)

\* the three CASE expressions of the averages query for one allocated row
AvgUtilTerm(D, a) ==
    IF a.ALLOCATED_AMT # NullAmt /\ a.ALLOCATED_AMT > 0
    THEN SqlUtilization(OrZero(SqlSum(ColEq(D.expenditure, "MP_NAME", a.MP_NAME),
                                      "FUND_DISBURSED_AMT")),
                        a.ALLOCATED_AMT, D.amount_type)
    ELSE NullRatio

AvgCompTerm(D, a) ==
    LET rec_count  == Len(ColEq(D.recommended, "MP_NAME", a.MP_NAME))
        comp_count == Len(ColEq(D.completed, "MP_NAME", a.MP_NAME))
    IN  IF rec_count > 0 THEN PctOrZero(comp_count, rec_count) ELSE NullRatio

AvgTransTerm(D, a) ==
    LET comp == ColEq(D.completed, "MP_NAME", a.MP_NAME)
    IN  IF Len(comp) > 0 THEN PctOrZero(SqlCount(comp, "ATTACH_ID"), Len(comp))
        ELSE NullRatio

RECURSIVE SqlAvgLoop(_, _, _, _)
SqlAvgLoop(terms, i, sum, count) ==
    IF i > Len(terms) THEN (IF count = 0 THEN Zero ELSE RDivInt(sum, count))
    ELSE IF terms[i] = NullRatio THEN SqlAvgLoop(terms, i + 1, sum, count)
    ELSE SqlAvgLoop(terms, i + 1, RAdd(sum, terms[i]), count + 1)

\* AVG(...) over the allocated rows, then `float(avg_row[k] or 0)`
SqlAvg(D, Term(_, _)) ==
    SqlAvgLoop([i \in Idx(D.allocated) |-> Term(D, D.allocated[i])], 1, Zero, 0)

Signal(code, severity) == [code |-> code, severity |-> severity]

\* the signal with a share of exactly 70% left out
MpVendorConcentrationSignalAbove70(top3_vendor_share, total_spent) ==
    IF ~RLeq(top3_vendor_share, 70) /\ total_spent > 0
    THEN <<Signal("vendor_concentration",
                  IF ~RGeq(top3_vendor_share, 85) THEN "warning" ELSE "high")>>
    ELSE <<>>

\* lines 1071-1079
MpVendorConcentrationSignal(top3_vendor_share, total_spent) ==
    IF RGeq(top3_vendor_share, 70) /\ total_spent > 0
    THEN <<Signal("vendor_concentration",
                  IF ~RGeq(top3_vendor_share, 85) THEN "warning" ELSE "high")>>
    ELSE <<>>

\* lines 1080-1088
SpendVsCompletionSignal(utilization_rate, avg_util, completion_rate, avg_comp, total_spent) ==
    IF RLeqR(avg_util, utilization_rate) /\ RLeqR(completion_rate, avg_comp) /\ total_spent > 0
    THEN <<Signal("spend_vs_completion", "warning")>>
    ELSE <<>>

\* the signal with severity high only below 20%
MpLowTransparencySignalHighBelow20(transparency_score, avg_trans, completed_works) ==
    IF RLeqR(transparency_score, avg_trans) /\ completed_works > 10
    THEN <<Signal("low_transparency",
                  IF RGeq(transparency_score, 20) THEN "warning" ELSE "high")>>
    ELSE <<>>

\* lines 1089-1097
MpLowTransparencySignal(transparency_score, avg_trans, completed_works) ==
    IF RLeqR(transparency_score, avg_trans) /\ completed_works > 10
    THEN <<Signal("low_transparency",
                  IF ~RLeq(transparency_score, 20) THEN "warning" ELSE "high")>>
    ELSE <<>>

\* lines 1098-1108
SpendWithoutProofSignal(no_proof, total_spent) ==
    IF no_proof > 0 /\ total_spent > 0 /\ RGeq(PctOrZero(no_proof, total_spent), 10)
    THEN <<Signal("spend_without_proof",
                  IF ~RGeq(PctOrZero(no_proof, total_spent), 30) THEN "warning" ELSE "high")>>
    ELSE <<>>

get_mp_insights(D, mp_name, now) ==
    LET basics == ColEq(D.allocated, "MP_NAME", mp_name)
        basic  == basics[1]
        exp    == ColEq(D.expenditure, "MP_NAME", mp_name)
        comp   == ColEq(D.completed, "MP_NAME", mp_name)
        total_spent       == OrZero(SqlSum(exp, "FUND_DISBURSED_AMT"))
        recommended_works == Len(ColEq(D.recommended, "MP_NAME", mp_name))
        completed_works   == Len(comp)
        proofs            == SqlCount(comp, "ATTACH_ID")
        vendor_rows         == TopGroups(exp, "VENDOR_NAME", 10)
        activity_spend_rows == TopGroups(exp, "ACTIVITY_NAME", 8)
        parsed == PlausiblePairs(ParsedLoop(exp, 1, "EXPENDITURE_DATE", <<>>), now)
        top3_vendor_share  == PctOrZero(OrZeroSum(Take(vendor_rows, 3)), total_spent)
        utilization_rate   == PctOrZero(total_spent, OrZero(basic.ALLOCATED_AMT))
        completion_rate    == PctOrZero(completed_works, recommended_works)
        transparency_score == PctOrZero(proofs, completed_works)
    IN  IF basics = <<>> THEN ReraiseHTTP(HTTPException(404))
        \* share_pct: r[1] / total_spent with r[1] None raises TypeError
        ELSE IF total_spent # 0 /\ (HasNullSum(vendor_rows) \/ HasNullSum(activity_spend_rows))
        THEN ReraiseHTTP(TypeError)
        ELSE [status |-> 200,
              allocated |-> basic.ALLOCATED_AMT,
              spent |-> total_spent,
              utilization_rate |-> utilization_rate,
              recommended_works |-> recommended_works,
              completed_works |-> completed_works,
              completion_rate |-> completion_rate,
              proofs |-> proofs,
              transparency_score |-> transparency_score,
              vendor_concentration_top3_pct |-> top3_vendor_share,
              spending_trend |-> MonthlySeries(MonthlyLoop(parsed, 1, <<>>)),
              signals |->
                  MpVendorConcentrationSignal(top3_vendor_share, total_spent)
                  \o SpendVsCompletionSignal(utilization_rate, SqlAvg(D, AvgUtilTerm),
                                             completion_rate, SqlAvg(D, AvgCompTerm),
                                             total_spent)
                  \o MpLowTransparencySignal(transparency_score, SqlAvg(D, AvgTransTerm),
                                             completed_works)
                  \o SpendWithoutProofSignal(spend_no_proof(D, mp_name), total_spent)]

-----------------------------------------------------------------------------
(* get_work_type_insights *)

get_work_type_insights(D, activity, now) ==
    LET rows    == ColEq(D.expenditure, "ACTIVITY_NAME", activity)
        parsed  == ParsedLoop(rows, 1, "EXPENDITURE_DATE", <<>>)
        amounts == [i \in Idx(parsed) |-> parsed[i].amt]
        dts     == clamp_date_range(DatesOf(parsed), now)
        monthly == MonthlyLoop(Zip(dts, amounts), 1, <<>>)
    IN  [status |-> 200,
         total_spent |-> SumSeq(amounts),
         monthly_spent |-> MonthlySeries(monthly),
         top_vendors |-> TopGroups(rows, "VENDOR_NAME", 10),
         top_mps |-> TopGroups(rows, "MP_NAME", 10)]

-----------------------------------------------------------------------------
(* get_vendor_insights *)

get_vendor_insights(D, vendor_name, now) ==
    LET rows   == ColEq(D.expenditure, "VENDOR_NAME", vendor_name)
        total_received == OrZero(SqlSum(rows, "FUND_DISBURSED_AMT"))
        activity_rows  == TopGroups(rows, "ACTIVITY_NAME", 6)
        parsed == PlausiblePairs(ParsedLoop(rows, 1, "EXPENDITURE_DATE", <<>>), now)
    IN  \* share_pct: r[1] / total_received with r[1] None raises TypeError
        IF total_received # 0 /\ HasNullSum(activity_rows) THEN CatchAll(TypeError)
        ELSE [status |-> 200,
              payments |-> Len(rows),
              total_received |-> total_received,
              top_activity_share_pct |-> PctOrZero(OrZeroSum(activity_rows), total_received),
              top3_activity_share_pct |->
                  PctOrZero(OrZeroSum(Take(activity_rows, 3)), total_received),
              monthly_received |-> MonthlySeries(MonthlyLoop(parsed, 1, <<>>))]

-----------------------------------------------------------------------------
(* get_trends *)

RECURSIVE CompletedLoop(_, _, _, _)
CompletedLoop(rows, i, now, monthly) ==
    IF i > Len(rows) THEN monthly
    ELSE LET dt == parse_portal_date(rows[i].ACTUAL_END_DATE)
         IN  CompletedLoop(rows, i + 1, now,
                           IF dt = NoDate \/ ~Plausible(dt, now) THEN monthly
                           ELSE DictAdd(monthly, safe_month_key(dt), 1))

\* the distinct non-null MP names of the rows, in order of first appearance
MpNamesOf(rows) ==
    LET first == {i \in Idx(rows) :
                     /\ rows[i].MP_NAME # NULL
                     /\ \A j \in 1 .. (i - 1) : rows[j].MP_NAME # rows[i].MP_NAME}
        order == SortedKeys(first)
    IN  [k \in Idx(order) |-> rows[order[k]].MP_NAME]

\* ORDER BY pct DESC, amount DESC
RankedBefore(a, b) ==
    \/ ~RLeqR(a.pct, b.pct)
    \/ a.pct = b.pct /\ a.amount > b.amount

RECURSIVE InsertRanked(_, _)
InsertRanked(s, e) ==
    IF s = <<>> THEN <<e>>
    ELSE IF RankedBefore(e, Head(s)) THEN <<e>> \o s
    ELSE <<Head(s)>> \o InsertRanked(Tail(s), e)

RECURSIVE RankLoop(_, _, _)
RankLoop(items, i, acc) ==
    IF i > Len(items) THEN acc ELSE RankLoop(items, i + 1, InsertRanked(acc, items[i]))

\* get_bias_rankings, lines 1162-1260: per MP the top-3 vendor share and the
\* share of spend on completed works without proof, MPs without spend left
\* out, each list ranked and cut at 15
get_bias_rankings(D, state) ==
    LET exp == StateRows(D.expenditure, state)
        mps == MpNamesOf(exp)
        total(m) == OrZero(SqlSum(ColEq(exp, "MP_NAME", m), "FUND_DISBURSED_AMT"))
        top3(m)  == OrZeroSum(TopGroups(ColEq(exp, "MP_NAME", m), "VENDOR_NAME", 3))
        no_proof(m) == spend_no_proof([D EXCEPT !.expenditure = exp], m)
        spenders == SelectSeq(mps, LAMBDA m : total(m) > 0)
        concentration ==
            [k \in Idx(spenders) |->
                [mp |-> spenders[k], total_spent |-> total(spenders[k]),
                 top3_spent |-> top3(spenders[k]),
                 pct |-> PctOrZero(top3(spenders[k]), total(spenders[k])),
                 amount |-> total(spenders[k])]]
        spend_without_proof ==
            [k \in Idx(spenders) |->
                [mp |-> spenders[k], total_spent |-> total(spenders[k]),
                 no_proof_spent |-> no_proof(spenders[k]),
                 pct |-> PctOrZero(no_proof(spenders[k]), total(spenders[k])),
                 amount |-> no_proof(spenders[k])]]
    IN  [status |-> 200,
         vendor_concentration |-> Take(RankLoop(concentration, 1, <<>>), 15),
         spend_without_proof |-> Take(RankLoop(spend_without_proof, 1, <<>>), 15)]

get_trends(D, months, state, now) ==
    LET exp_data == StateRows(D.expenditure, state)
        comp_data == StateRows(D.completed, state)
        monthly_spend == MonthlyLoop(
                             PlausiblePairs(ParsedLoop(exp_data, 1, "EXPENDITURE_DATE", <<>>), now),
                             1, <<>>)
        monthly_complete == CompletedLoop(comp_data, 1, now, <<>>)
        all_months == SortedKeys(DictKeys(monthly_spend) \cup DictKeys(monthly_complete))
        safe_months == Max(1, Min(months, 120))
        last == SubSeq(all_months, Max(1, Len(all_months) - safe_months + 1), Len(all_months))
    IN  [status |-> 200,
         series |-> [i \in Idx(last) |->
                        [month |-> last[i],
                         spent |-> DictGet(monthly_spend, last[i], 0),
                         completed |-> DictGet(monthly_complete, last[i], 0)]]]

-----------------------------------------------------------------------------
(* Input universes *)

DbY(d, m, y) == [fmt |-> "d-b-Y", d |-> d, m |-> m, y |-> y]

DmY(d, m, y) == [fmt |-> "d/m/Y", d |-> d, m |-> m, y |-> y]

Iso(y, m, d) == [fmt |-> "Y-m-d", d |-> d, m |-> m, y |-> y]

\* text that matches none of the accepted layouts, e.g. 'bad-date', '31-13-2026'
BadDate == [fmt |-> "d-m-Y", d |-> 31, m |-> 13, y |-> 2026]

ExpRow(a, amt, date, mp, vendor, state, work) ==
    [ACTIVITY_NAME |-> a, FUND_DISBURSED_AMT |-> amt, EXPENDITURE_DATE |-> date,
     MP_NAME |-> mp, VENDOR_NAME |-> vendor, STATE_NAME |-> state,
     WORK_RECOMMENDATION_DTL_ID |-> work]

RecRow(a, date, mp, state, work) ==
    [ACTIVITY_NAME |-> a, RECOMMENDATION_DATE |-> date, MP_NAME |-> mp,
     STATE_NAME |-> state, WORK_RECOMMENDATION_DTL_ID |-> work]

CompRow(a, date, attach, mp, state, work) ==
    [ACTIVITY_NAME |-> a, ACTUAL_END_DATE |-> date, ATTACH_ID |-> attach, MP_NAME |-> mp,
     STATE_NAME |-> state, WORK_RECOMMENDATION_DTL_ID |-> work]

AllocRow(mp, state, amt) == [MP_NAME |-> mp, STATE_NAME |-> state, ALLOCATED_AMT |-> amt]

NowDates == {[y |-> 2026, m |-> 1, d |-> 15]}

Nows == {NowTS(nd) : nd \in NowDates}

QStates == {NULL, "S1"}

QMps == {NULL, "MP1"}

QVendors == {NULL, "V1"}

QMonths == {NullAmt, 12}

QFromDates == {NullDate, Iso(2025, 10, 10)}

QToDates == {NullDate, Iso(2025, 12, 31)}

QLimits == {1, 50}

QActivities == {"Roads", "Water"}

ExpRows ==
    { ExpRow("Roads", 5, DbY(15, 10, 2025), "MP1", "V1", "S1", "W1"),
      ExpRow("Roads", 7, BadDate, "MP1", NULL, "S1", "W2"),
      ExpRow(NULL, 3, NullDate, "MP2", "V2", "S1", NULL),
      ExpRow("Roads", 11, DbY(15, 1, 1999), "MP2", "V1", "S2", "W1"),
      ExpRow("Water", NullAmt, DmY(6, 10, 2025), NULL, "V2", "S2", "W3"),
      ExpRow("Water", 13, DbY(1, 1, 2030), "MP1", "", "S1", "W3"),
      ExpRow("Water", 17, Iso(2025, 11, 20), "MP1", "V1", "S1", NULL),
      ExpRow("Roads", 19, DbY(6, 10, 2025), "MP2", "V2", "S1", "W2") }

RecTables ==
    { <<>>,
      <<RecRow("Roads", DbY(1, 11, 2025), "MP1", "S1", "W1"),
        RecRow("Water", BadDate, "MP1", "S1", "W3")>>,
      <<RecRow("Roads", DbY(1, 1, 1999), "MP2", "S1", "W2")>> }

CompTables ==
    { <<>>,
      <<CompRow("Roads", DbY(1, 12, 2025), "A1", "MP1", "S1", "W1"),
        CompRow("Water", NullDate, "", "MP1", "S1", "W3")>>,
      <<CompRow("Roads", DbY(1, 1, 1999), NULL, "MP2", "S1", "W2")>> }

AllocTable0 == <<AllocRow("MP1", "S1", 100), AllocRow("MP2", "S1", 0)>>

RadarExpRows ==
    { ExpRow("Roads", 5, DbY(15, 10, 2025), "MP1", "V1", "S1", "W1"),
      ExpRow(NULL, 3, BadDate, "MP2", NULL, "S1", NULL),
      ExpRow("Roads", 11, DbY(15, 1, 1999), "MP2", "V2", "S2", "W1"),
      ExpRow("Water", 13, DbY(1, 1, 2030), NULL, "", "S1", "W3"),
      ExpRow("Water", NullAmt, DmY(6, 10, 2025), "MP1", "V1", "S1", "W3") }

RadarRecTables ==
    { <<>>,
      <<RecRow("Roads", DbY(1, 11, 2025), "MP1", "S1", "W1"),
        RecRow("Water", BadDate, "MP1", "S1", "W3"),
        RecRow("Roads", DbY(1, 1, 1999), "MP2", "S1", "W2")>> }

RadarCompTables ==
    { <<>>,
      <<CompRow("Roads", DbY(1, 12, 2025), "A1", "MP1", "S1", "W1"),
        CompRow("Water", NullDate, "", "MP1", "S1", "W3"),
        CompRow("Roads", DbY(1, 1, 1999), NULL, "MP2", "S1", "W2")>> }

RadarDatasets ==
    { [allocated |-> AllocTable0, expenditure |-> e, recommended |-> r, completed |-> c] :
        e \in SeqsUpTo(RadarExpRows, MaxRadarRows),
        r \in RadarRecTables, c \in RadarCompTables }

\* expenditure tables with one large category: n records of `amt` each for
\* activity Roads in state S1, spread over nmp MPs and nv vendors
MpName(k) == "MP" \o ToString(k)

VendorName(k) == "V" \o ToString(k)

CategoryRows(n, amt, nmp, nv) ==
    [k \in 1 .. n |->
        ExpRow("Roads", amt, DbY(15, 10, 2025), MpName(((k - 1) % nmp) + 1),
               VendorName(((k - 1) % nv) + 1), "S1", "W1")]

\* optional further categories in S1, and an optional record of another state
SecondCategoryRows ==
    { <<>>,
      <<ExpRow("Water", 0, Iso(2025, 11, 20), "MP1", "V1", "S1", "W3")>>,
      <<ExpRow("Water", 10000000, Iso(2025, 11, 20), "MP1", "V1", "S1", "W3")>>,
      <<ExpRow("Water", 10000000, Iso(2025, 11, 20), "MP1", "V1", "S1", "W3"),
        ExpRow("Parks", 0, Iso(2025, 11, 21), "MP2", "V2", "S1", "W4")>> }

OtherStateRows ==
    { <<>> } \cup
    { <<ExpRow(a, amt, date, "MP9", "V9", "S2", "W9")>> :
        a \in {"Roads", "Water"}, amt \in {20000000, 40000000, 50000000},
        date \in {DbY(1, 11, 2025), DbY(1, 11, 2019)} }

CategoryExpTables ==
    { CategoryRows(n, amt, nmp, nv) \o w \o o :
        n \in {MaxCategoryRows - 1, MaxCategoryRows}, amt \in {4000000, 5000000},
        nmp \in {MaxCategoryRows - 1, MaxCategoryRows},
        nv \in 1 .. MaxCategoryRows,
        w \in SecondCategoryRows, o \in OtherStateRows }

CategoryDatasets ==
    { [allocated |-> AllocTable0, expenditure |-> e, recommended |-> <<>>, completed |-> <<>>] :
        e \in CategoryExpTables }

\* datasets around one MP with more than ten completed works: MP1's spend
\* split over vendors (one expenditure record per vendor, in percent of its
\* total), its completed works of which the first p carry a proof, its
\* recommended works, and a second MP for the national averages
WorkName(k) == "W" \o ToString(k)

VendorSplits ==
    { <<100>>, <<55, 15, 15, 15>>, <<52, 16, 16, 16>>, <<40, 15, 15, 15, 15>>,
      <<36, 16, 16, 16, 16>>, <<70, 10, 10, 10>>, <<82, 6, 6, 6>>, <<0>>, <<>> }

Mp1Expenditure(split) ==
    [k \in Idx(split) |->
        ExpRow("Roads", split[k], DbY(15, 10, 2025), "MP1", VendorName(k), "S1", WorkName(k))]

Mp2Expenditures ==
    { <<>> } \cup
    { <<ExpRow("Water", amt, DbY(16, 10, 2025), "MP2", "V9", "S1", "X1")>> : amt \in {30, 150} }

\* completed work k belongs to expenditure record k, or, when `shared`, the
\* works from the last expenditure record on all belong to that record
Mp1Completed(nc, p, shared, n) ==
    [k \in 1 .. nc |->
        CompRow("Roads", DbY(1, 12, 2025), IF k <= p THEN "A1" ELSE NULL, "MP1", "S1",
                WorkName(IF shared THEN Min(k, n) ELSE k))]

Mp2Completeds ==
    { <<>> } \cup
    { <<CompRow("Water", DbY(2, 12, 2025), attach, "MP2", "S1", "X2")>> : attach \in {"A2", NULL} }

Mp1Recommended(nr) ==
    [k \in 1 .. nr |-> RecRow("Roads", DbY(1, 11, 2025), "MP1", "S1", WorkName(k))]

Mp2Recommended == <<RecRow("Water", DbY(2, 11, 2025), "MP2", "S1", "X2")>>

SignalDatasets ==
    { [allocated |-> <<AllocRow("MP1", "S1", a1), AllocRow("MP2", "S1", 100)>>,
       expenditure |-> Mp1Expenditure(split) \o e2,
       recommended |-> Mp1Recommended(nr) \o Mp2Recommended,
       completed |-> Mp1Completed(nc, IF p > nc THEN nc ELSE p, shared, Len(split)) \o c2,
       amount_type |-> ty] :
        a1 \in {100, 200}, split \in VendorSplits, e2 \in Mp2Expenditures,
        nr \in {0, MaxCompleted, 2 * MaxCompleted},
        nc \in {MaxCompleted - 1, MaxCompleted, MaxCompleted + 4},
        p \in {0, 2, 3, MaxCompleted},
        shared \in BOOLEAN, c2 \in Mp2Completeds, ty \in {"INTEGER", "REAL"} }

\* datasets around one category with ten or more completed works: Roads in
\* S1 (five records over five MPs and three vendors), optionally Water in S1
\* (three records, above or below Roads), optionally a record of another
\* state; nc completed Roads works of which the first p carry a proof
\* reference and the others a null or blank one, the last one optionally
\* dated before every range
BlankProof(k) == IF k % 3 = 0 THEN "" ELSE IF k % 3 = 1 THEN NULL ELSE " "

RoadsCompleted(nc, p, old) ==
    [k \in 1 .. nc |->
        CompRow("Roads", IF old /\ k = nc THEN DbY(1, 12, 2019) ELSE DbY(1, 12, 2025),
                IF k <= p THEN "A1" ELSE BlankProof(k), "MP1", "S1", WorkName(k))]

WaterCompleteds ==
    { <<>>,
      [k \in 1 .. 2 |-> CompRow("Water", DbY(2, 12, 2025), IF k <= 1 THEN "A2" ELSE NULL,
                                "MP2", "S1", "X1")] }

WaterRows ==
    { <<>> } \cup
    { [k \in 1 .. 3 |-> ExpRow("Water", amt, DbY(16, 10, 2025), "MP1", VendorName(k), "S1", "X1")] :
        amt \in {5000000, 10000000} }

ForeignRows == { <<>>, <<ExpRow("Parks", 160000000, DbY(1, 11, 2025), "MP9", "V9", "S2", "W9")>> }

FlagDatasets ==
    { [allocated |-> AllocTable0,
       expenditure |-> CategoryRows(5, amt, 5, 3) \o w \o o,
       recommended |-> <<>>,
       completed |-> RoadsCompleted(nc, p, old) \o wc,
       amount_type |-> "INTEGER"] :
        amt \in {3000000, 4000000}, w \in WaterRows, o \in ForeignRows,
        nc \in {9, 10, MaxWorks}, p \in {0, 2, 3, 4}, old \in BOOLEAN,
        wc \in WaterCompleteds }

\* datasets of one MP and one category paid to up to MaxVendors vendors: one
\* expenditure record per amount; the records name distinct vendors, or the
\* last one names no vendor, or the last one names the first vendor again
VendorAmounts == SeqsUpTo({10, 30, 50}, MaxVendors)

VendorNaming == {"distinct", "last_missing", "last_repeats_first"}

VendorRows(amounts, naming) ==
    [k \in Idx(amounts) |->
        ExpRow("Roads", amounts[k], DbY(15, 10, 2025), "MP1",
               IF k = Len(amounts) /\ naming = "last_missing" THEN NULL
               ELSE IF k = Len(amounts) /\ naming = "last_repeats_first" THEN VendorName(1)
               ELSE VendorName(k),
               "S1", WorkName(k))]

VendorDatasets ==
    { [allocated |-> AllocTable0, expenditure |-> VendorRows(amounts, naming),
       recommended |-> <<>>, completed |-> <<>>, amount_type |-> "INTEGER"] :
        amounts \in VendorAmounts, naming \in VendorNaming }

\* date texts: null, empty, whitespace, 'nan' in several cases, a word, and
\* three fields joined by two separators, with up to MaxPad whitespace
\* before and after
Numbers ==
    { Tok("num", 1, 9), Tok("num", 2, 9), Tok("num", 2, 0), Tok("num", 2, 13),
      Tok("num", 2, 26), Tok("num", 2, 29), Tok("num", 2, 31), Tok("num", 2, 32),
      Tok("num", 2, 69), Tok("num", 4, 0), Tok("num", 4, 2025), Tok("num", 4, 2026) }

Months == { Tok("mon", 0, 1), Tok("mon", 1, 2), Tok("mon", 0, 0) }

Separators == { Tok("-", 0, 0), Tok("/", 0, 0) }

Words == { Tok("nan", 0, 0), Tok("nan", 1, 0), Tok("word", 0, 0) }

Pad(n) == [k \in 1 .. n |-> Tok("ws", 0, 0)]

Bodies ==
    { <<>> } \cup { <<w>> : w \in Words } \cup
    { <<a, s1, b, s2, c>> :
        a \in Numbers, s1 \in Separators, b \in Numbers \cup Months, s2 \in Separators,
        c \in Numbers }

DateTexts ==
    { NullText } \cup { Pad(l) \o body \o Pad(r) : l \in 0 .. MaxPad, r \in 0 .. MaxPad, body \in Bodies }

\* requests and records around the edges of the date window, for the clock
\* at midday of 15 January 2026: 31 days back is midday of 15 December 2025,
\* 372 days back midday of 8 January 2025
WindowMonths == {NullAmt, -2, 0, 1, 12}

WindowFromDates == {NullDate, Iso(2025, 12, 1), Iso(2025, 12, 20)}

WindowToDates == {NullDate, Iso(2025, 12, 25)}

WindowExpRows ==
    << ExpRow("Roads", 1, DbY(8, 1, 2025), "MP1", "V1", "S1", "W1"),
       ExpRow("Roads", 2, DbY(9, 1, 2025), "MP1", "V1", "S1", "W1"),
       ExpRow("Roads", 4, DmY(30, 11, 2025), "MP1", "V1", "S1", "W1"),
       ExpRow("Roads", 8, DmY(1, 12, 2025), "MP1", "V1", "S1", "W1"),
       ExpRow("Roads", 16, Iso(2025, 12, 15), "MP1", "V1", "S1", "W1"),
       ExpRow("Roads", 32, Iso(2025, 12, 16), "MP1", "V1", "S1", "W1"),
       ExpRow("Roads", 64, DbY(19, 12, 2025), "MP1", "V1", "S1", "W1"),
       ExpRow("Roads", 128, DbY(20, 12, 2025), "MP1", "V1", "S1", "W1"),
       ExpRow("Roads", 256, DbY(25, 12, 2025), "MP1", "V1", "S1", "W1"),
       ExpRow("Roads", 512, DbY(26, 12, 2025), "MP1", "V1", "S1", "W1") >>

WindowRecRows ==
    << RecRow("Roads", DbY(15, 12, 2025), "MP1", "S1", "W1"),
       RecRow("Roads", DbY(16, 12, 2025), "MP1", "S1", "W1"),
       RecRow("Roads", DbY(30, 11, 2025), "MP1", "S1", "W1") >>

WindowCompRows ==
    << CompRow("Roads", DbY(25, 12, 2025), "A1", "MP1", "S1", "W1"),
       CompRow("Roads", DbY(26, 12, 2025), "A1", "MP1", "S1", "W1") >>

\* s without its k-th element; s itself for k = 0
Without(s, k) == [i \in 1 .. (Len(s) - (IF k = 0 THEN 0 ELSE 1)) |->
                     IF k = 0 \/ i < k THEN s[i] ELSE s[i + 1]]

WindowDatasets ==
    { [allocated |-> AllocTable0, expenditure |-> Without(WindowExpRows, k),
       recommended |-> WindowRecRows, completed |-> WindowCompRows] :
        k \in 0 .. Len(WindowExpRows) }

QListLimits == {1, 100}

QSortBy == {"expenditure", "completion"}

QMpNames == {"MP1", "MP2", "MP9"}

QVendorNames == {"V1", "V2"}

QTrendMonths == {1, 12}

AllocTables ==
    { AllocTable0,
      <<AllocRow("MP2", "S2", NullAmt), AllocRow("MP1", "S1", 50)>>,
      <<>> }

ProfileDatasets ==
    { [allocated |-> a, expenditure |-> e, recommended |-> r, completed |-> c,
       amount_type |-> "REAL"] :
        a \in AllocTables, e \in SeqsUpTo(ExpRows, MaxRows),
        r \in RecTables, c \in CompTables }

\* the raw JSON files as the previous ETL run left them
RawFile(st, rows) == [state |-> st, rows |-> rows]

Tables == <<"allocated", "expenditure", "recommended", "completed">>

RawOf(D) == [t \in {Tables[i] : i \in 1 .. 4} |-> RawFile("ok", D[t])]

Idle == [op |-> "idle"]

NoJobs == [j \in {} |-> Idle]

\* no handler is between two of its SQL statements
NoTxn == [op |-> "none"]

InitWith(Datasets) ==
    /\ db \in Datasets
    /\ workdb = db
    /\ raw = RawOf(db)
    /\ refresh_jobs = NoJobs
    /\ tasks = NoJobs
    /\ resp = Idle
    /\ txn = NoTxn

-----------------------------------------------------------------------------
(* Request cycle: a handler computes the response, then it is sent *)

Respond ==
    /\ resp # Idle
    /\ resp' = Idle
    /\ UNCHANGED <<db, jobvars>>

QueryCategoryRadar ==
    /\ resp = Idle
    /\ \E state \in QStates, mp \in QMps, vendor \in QVendors, months \in QMonths,
          from_date \in QFromDates, to_date \in QToDates, limit \in QLimits, now \in Nows :
          resp' = [op |-> "get_category_radar",
                   req |-> [state |-> state, mp |-> mp, vendor |-> vendor, months |-> months,
                            from_date |-> from_date, to_date |-> to_date, limit |-> limit],
                   out |-> get_category_radar(db, state, mp, vendor, months, from_date,
                                              to_date, limit, now)]
    /\ UNCHANGED <<db, jobvars>>

QueryCategoryRadarDrilldown ==
    /\ resp = Idle
    /\ \E activity \in QActivities, state \in QStates, mp \in QMps, vendor \in QVendors,
          months \in QMonths, from_date \in QFromDates, to_date \in QToDates, now \in Nows :
          resp' = [op |-> "get_category_radar_drilldown",
                   req |-> [activity |-> activity, state |-> state, mp |-> mp,
                            vendor |-> vendor, months |-> months,
                            from_date |-> from_date, to_date |-> to_date],
                   out |-> get_category_radar_drilldown(db, activity, state, mp, vendor,
                                                        months, from_date, to_date, now)]
    /\ UNCHANGED <<db, jobvars>>

QueryGlobalStats ==
    /\ resp = Idle
    /\ resp' = [op |-> "get_global_stats", req |-> [state |-> NULL],
                out |-> get_global_stats(db)]
    /\ UNCHANGED <<db, jobvars>>

QueryMpsList ==
    /\ resp = Idle
    /\ \E limit \in QListLimits, sort_by \in QSortBy :
          resp' = [op |-> "get_mps_list", req |-> [limit |-> limit, sort_by |-> sort_by],
                   out |-> get_mps_list(db, limit, sort_by)]
    /\ UNCHANGED <<db, jobvars>>

QueryMpDetail ==
    /\ resp = Idle
    /\ \E mp_name \in QMpNames :
          resp' = [op |-> "get_mp_detail", req |-> [mp_name |-> mp_name],
                   out |-> get_mp_detail(db, mp_name)]
    /\ UNCHANGED <<db, jobvars>>

QueryMpInsights ==
    /\ resp = Idle
    /\ \E mp_name \in QMpNames, now \in Nows :
          resp' = [op |-> "get_mp_insights", req |-> [mp_name |-> mp_name, now |-> now],
                   out |-> get_mp_insights(db, mp_name, now)]
    /\ UNCHANGED <<db, jobvars>>

QueryWorkTypeInsights ==
    /\ resp = Idle
    /\ \E activity \in QActivities, now \in Nows :
          resp' = [op |-> "get_work_type_insights", req |-> [activity |-> activity, now |-> now],
                   out |-> get_work_type_insights(db, activity, now)]
    /\ UNCHANGED <<db, jobvars>>

QueryVendorInsights ==
    /\ resp = Idle
    /\ \E vendor_name \in QVendorNames, now \in Nows :
          resp' = [op |-> "get_vendor_insights",
                   req |-> [vendor_name |-> vendor_name, now |-> now],
                   out |-> get_vendor_insights(db, vendor_name, now)]
    /\ UNCHANGED <<db, jobvars>>

QueryTrends ==
    /\ resp = Idle
    /\ \E months \in QTrendMonths, state \in QStates, now \in Nows :
          resp' = [op |-> "get_trends", req |-> [months |-> months, state |-> state, now |-> now],
                   out |-> get_trends(db, months, state, now)]
    /\ UNCHANGED <<db, jobvars>>

QueryBiasRankings ==
    /\ resp = Idle
    /\ \E state \in QStates :
          resp' = [op |-> "get_bias_rankings", req |-> [state |-> state],
                   out |-> get_bias_rankings(db, state)]
    /\ UNCHANGED <<db, jobvars>>

InitProfile == InitWith(ProfileDatasets)

NextProfile ==
    \/ QueryGlobalStats
    \/ QueryMpsList
    \/ QueryMpDetail
    \/ QueryMpInsights
    \/ QueryWorkTypeInsights
    \/ QueryVendorInsights
    \/ QueryTrends
    \/ Respond

SpecProfile == InitProfile /\ [][NextProfile]_vars

InitRadar == InitWith(RadarDatasets)

NextRadar == QueryCategoryRadar \/ QueryCategoryRadarDrilldown \/ Respond

SpecRadar == InitRadar /\ [][NextRadar]_vars

InitFlags == InitWith(CategoryDatasets)

NextFlags ==
    \/ QueryCategoryRadar
    \/ Respond

SpecFlags == InitFlags /\ [][NextFlags]_vars

InitRules == InitWith(FlagDatasets)

NextRules ==
    \/ QueryCategoryRadar
    \/ QueryMpInsights
    \/ Respond

SpecRules == InitRules /\ [][NextRules]_vars

InitVendors == InitWith(VendorDatasets)

NextVendors ==
    \/ QueryCategoryRadar
    \/ QueryMpInsights
    \/ Respond

SpecVendors == InitVendors /\ [][NextVendors]_vars

InitSignals == InitWith(SignalDatasets)

NextSignals ==
    \/ QueryMpInsights
    \/ Respond

SpecSignals == InitSignals /\ [][NextSignals]_vars


-----------------------------------------------------------------------------
(* Refresh jobs: admin endpoints, _start_refresh_job and load_data *)

JobIds == 1 .. MaxJobs

TableSet == {Tables[i] : i \in 1 .. 4}

\* the dataset before any refresh, and the rows the raw files hold
OldDataset ==
    [allocated |-> AllocTable0,
     expenditure |-> <<ExpRow("Roads", 5, DbY(15, 10, 2025), "MP1", "V1", "S1", "W1")>>,
     recommended |-> <<RecRow("Roads", DbY(1, 11, 2025), "MP1", "S1", "W1")>>,
     completed |-> <<>>]

NewDataset ==
    [allocated |-> <<AllocRow("MP1", "S1", 200)>>,
     expenditure |-> <<ExpRow("Water", 17, Iso(2025, 11, 20), "MP1", "V1", "S1", NULL)>>,
     recommended |-> <<>>,
     completed |-> <<CompRow("Roads", DbY(1, 12, 2025), "A1", "MP1", "S1", "W1")>>]

\* the raw files: all four loadable, or one of them unreadable ("bad": missing
\* file or broken JSON) or without its key ("nokey")
RawConfigs ==
    {RawOf(NewDataset)} \cup
    {[RawOf(NewDataset) EXCEPT ![t] = RawFile(st, <<>>)] : t \in TableSet, st \in {"bad", "nokey"}}

\* admin_refresh_db: queues _start_refresh_job as a background task
admin_refresh_db ==
    /\ resp = Idle
    /\ \E authorized \in BOOLEAN, do_fetch \in BOOLEAN, force_fetch \in BOOLEAN :
          IF ~authorized
          THEN /\ resp' = [op |-> "admin_refresh_db", req |-> [job_id |-> 0],
                           out |-> Failure(401)]
               /\ UNCHANGED tasks
          ELSE LET job_id == Cardinality(DOMAIN tasks) + 1
               IN  /\ job_id <= MaxJobs
                   /\ force_fetch => do_fetch
                   /\ tasks' = [j \in DOMAIN tasks \cup {job_id} |->
                                   IF j = job_id
                                   THEN [pc |-> "queued", file |-> 1, do_fetch |-> do_fetch,
                                         force_fetch |-> force_fetch, exc |-> NULL,
                                         loaded |-> {}]
                                   ELSE tasks[j]]
                   /\ resp' = [op |-> "admin_refresh_db", req |-> [job_id |-> job_id],
                               out |-> [status |-> 200, job_id |-> job_id]]
    /\ UNCHANGED <<db, workdb, raw, refresh_jobs, txn>>

\* admin_refresh_db_status
admin_refresh_db_status ==
    /\ resp = Idle
    /\ \E authorized \in BOOLEAN, job_id \in JobIds :
          resp' = [op |-> "admin_refresh_db_status", req |-> [job_id |-> job_id],
                   out |-> IF ~authorized THEN Failure(401)
                           ELSE IF job_id \notin DOMAIN refresh_jobs THEN Failure(404)
                           ELSE [status |-> 200, job |-> refresh_jobs[job_id]]]
    /\ UNCHANGED <<db, jobvars>>

At(j, pc) == j \in DOMAIN tasks /\ tasks[j].pc = pc

Goto(j, pc) == tasks' = [tasks EXCEPT ![j].pc = pc]

\* the background task starts once the response that queued it has been sent
ResponseSent(j) == ~(resp # Idle /\ resp.op = "admin_refresh_db" /\ resp.req.job_id = j)

\* _start_refresh_job, lines 37-51: register the job as running
JobStart(j) ==
    /\ At(j, "queued")
    /\ ResponseSent(j)
    /\ refresh_jobs' = [k \in DOMAIN refresh_jobs \cup {j} |->
                           IF k = j
                           THEN [job_id |-> j, status |-> "running", finished_at |-> NULL,
                                 error |-> NULL,
                                 params |-> [do_fetch |-> tasks[j].do_fetch,
                                             force_fetch |-> tasks[j].force_fetch]]
                           ELSE refresh_jobs[k]]
    /\ Goto(j, IF tasks[j].do_fetch THEN "fetch" ELSE "load")
    /\ UNCHANGED <<db, workdb, raw, resp, txn>>

\* lines 60-61: fetch_data(data_dir=..., force=...); scripts/fetch_data.py
\* defines fetch_data() without parameters, so the call raises TypeError
JobFetch(j) ==
    /\ At(j, "fetch")
    /\ tasks' = [tasks EXCEPT ![j].pc = "except", ![j].exc = "TypeError"]
    /\ UNCHANGED <<db, workdb, raw, refresh_jobs, resp, txn>>

\* load_data, one iteration of `for filename, config in FILES.items()`
JobLoadTable(j) ==
    /\ At(j, "load")
    /\ LET t    == Tables[tasks[j].file]
           next == IF tasks[j].file = 4 THEN "copy" ELSE "load"
       IN  IF raw[t].state = "ok"
           THEN /\ workdb' = [workdb EXCEPT ![t] = raw[t].rows]
                /\ tasks' = [tasks EXCEPT ![j].pc = next, ![j].file = @ + 1,
                                          ![j].loaded = @ \cup {t}]
           ELSE \* key not found: `continue`; any exception: printed and swallowed
                /\ workdb' = workdb
                /\ tasks' = [tasks EXCEPT ![j].pc = next, ![j].file = @ + 1]
    /\ UNCHANGED <<db, raw, refresh_jobs, resp, txn>>

\* load_data, lines 67-73: close, then copy the database file to the backend
\* path; the copy can fail with an OSError
JobCopy(j) ==
    /\ At(j, "copy")
    /\ \E copied \in BOOLEAN :
          IF copied
          THEN /\ db' = workdb
               /\ Goto(j, "succeed")
          ELSE /\ db' = db
               /\ tasks' = [tasks EXCEPT ![j].pc = "except", ![j].exc = "OSError"]
    /\ UNCHANGED <<workdb, raw, refresh_jobs, resp, txn>>

\* line 70
JobSucceed(j) ==
    /\ At(j, "succeed")
    /\ refresh_jobs' = [refresh_jobs EXCEPT ![j].status = "succeeded"]
    /\ Goto(j, "finally")
    /\ UNCHANGED <<db, workdb, raw, resp, txn>>

\* line 72
JobExceptStatus(j) ==
    /\ At(j, "except")
    /\ refresh_jobs' = [refresh_jobs EXCEPT ![j].status = "failed"]
    /\ Goto(j, "except_error")
    /\ UNCHANGED <<db, workdb, raw, resp, txn>>

\* JobExceptError with finished_at written in the try block only
JobExceptErrorSkipsFinally(j) ==
    /\ At(j, "except_error")
    /\ refresh_jobs' = [refresh_jobs EXCEPT ![j].error = tasks[j].exc]
    /\ Goto(j, "done")
    /\ UNCHANGED <<db, workdb, raw, resp, txn>>

\* line 73
JobExceptError(j) ==
    /\ At(j, "except_error")
    /\ refresh_jobs' = [refresh_jobs EXCEPT ![j].error = tasks[j].exc]
    /\ Goto(j, "finally")
    /\ UNCHANGED <<db, workdb, raw, resp, txn>>

\* JobFinally with the status also written in the finally block
JobFinallyMarksSucceeded(j) ==
    /\ At(j, "finally")
    /\ refresh_jobs' = [refresh_jobs EXCEPT ![j].finished_at = "set",
                                            ![j].status = "succeeded"]
    /\ Goto(j, "done")
    /\ UNCHANGED <<db, workdb, raw, resp, txn>>

\* line 75
JobFinally(j) ==
    /\ At(j, "finally")
    /\ refresh_jobs' = [refresh_jobs EXCEPT ![j].finished_at = "set"]
    /\ Goto(j, "done")
    /\ UNCHANGED <<db, workdb, raw, resp, txn>>

start_refresh_job(j) ==
    \/ JobStart(j)
    \/ JobFetch(j)
    \/ JobLoadTable(j)
    \/ JobCopy(j)
    \/ JobSucceed(j)
    \/ JobExceptStatus(j)
    \/ JobExceptError(j)
    \/ JobFinally(j)

InitJobs ==
    /\ db = OldDataset
    /\ workdb = OldDataset
    /\ raw \in RawConfigs
    /\ refresh_jobs = NoJobs
    /\ tasks = NoJobs
    /\ resp = Idle
    /\ txn = NoTxn

NextJobs ==
    \/ admin_refresh_db
    \/ admin_refresh_db_status
    \/ Respond
    \/ \E j \in JobIds : start_refresh_job(j)

SpecJobs == InitJobs /\ [][NextJobs]_vars

\* the background task runs in a worker thread of its own, which the
\* scheduler does not starve: a job that can take a step eventually takes one
FairJobs == \A j \in JobIds : WF_vars(start_refresh_job(j))

\* the raw files all loadable, or the first of them unreadable
InitJobsLive ==
    /\ db = OldDataset
    /\ workdb = OldDataset
    /\ raw \in {RawOf(NewDataset),
                [RawOf(NewDataset) EXCEPT ![Tables[1]] = RawFile("bad", <<>>)]}
    /\ refresh_jobs = NoJobs
    /\ tasks = NoJobs
    /\ resp = Idle
    /\ txn = NoTxn

\* the jobs and the endpoint that queues them
NextJobsLive ==
    \/ admin_refresh_db
    \/ Respond
    \/ \E j \in JobIds : start_refresh_job(j)

SpecJobsLive == InitJobsLive /\ [][NextJobsLive]_vars /\ FairJobs

-----------------------------------------------------------------------------
(* A query running while a refresh job runs.  get_trends issues two SQL     *)
(* statements on its connection, one per record set; each statement reads   *)
(* the database file as it is when the statement runs.  The copy of         *)
(* load_data is taken here as one step, its most favourable outcome.        *)

\* get_trends, lines 1819-1821: SELECT ... FROM expenditure
TrendsSelectExpenditure ==
    /\ resp = Idle
    /\ txn = NoTxn
    /\ \E months \in {12}, state \in {NULL}, now \in Nows :
          txn' = [op |-> "get_trends",
                  req |-> [months |-> months, state |-> state, now |-> now],
                  expenditure |-> db.expenditure,
                  before |-> db]
    /\ UNCHANGED <<db, workdb, raw, refresh_jobs, tasks, resp>>

\* TrendsSelectCompleted keeping the rows it read for the calls that follow
TrendsSelectCompletedKeepsRead ==
    /\ resp = Idle
    /\ txn # NoTxn
    /\ resp' = [op |-> "get_trends", req |-> txn.req,
                out |-> get_trends([db EXCEPT !.expenditure = txn.expenditure],
                                   txn.req.months, txn.req.state, txn.req.now),
                read |-> [expenditure |-> txn.expenditure, completed |-> db.completed],
                before |-> txn.before,
                after |-> db]
    /\ txn' = txn
    /\ UNCHANGED <<db, workdb, raw, refresh_jobs, tasks>>

\* get_trends, lines 1823-1857: SELECT ... FROM completed, then the series
TrendsSelectCompleted ==
    /\ resp = Idle
    /\ txn # NoTxn
    /\ resp' = [op |-> "get_trends", req |-> txn.req,
                out |-> get_trends([db EXCEPT !.expenditure = txn.expenditure],
                                   txn.req.months, txn.req.state, txn.req.now),
                read |-> [expenditure |-> txn.expenditure, completed |-> db.completed],
                before |-> txn.before,
                after |-> db]
    /\ txn' = NoTxn
    /\ UNCHANGED <<db, workdb, raw, refresh_jobs, tasks>>

NextSwap ==
    \/ NextJobs
    \/ TrendsSelectExpenditure
    \/ TrendsSelectCompleted

SpecSwap == InitJobs /\ [][NextSwap]_vars

-----------------------------------------------------------------------------
(* _parse_portal_date over the date texts *)

\* _parse_portal_date applied to a column value
ParsePortalDate ==
    /\ resp = Idle
    /\ \E value \in DateTexts :
          resp' = [op |-> "_parse_portal_date", req |-> [value |-> value],
                   out |-> parse_portal_date(Scan(value))]
    /\ UNCHANGED <<db, jobvars>>

InitDates == InitWith({OldDataset})

NextDates ==
    \/ ParsePortalDate
    \/ Respond

SpecDates == InitDates /\ [][NextDates]_vars

-----------------------------------------------------------------------------
(* The radar and its drilldown over the edges of the date window *)

QueryCategoryRadarWindow ==
    /\ resp = Idle
    /\ \E months \in WindowMonths, from_date \in WindowFromDates, to_date \in WindowToDates,
          now \in Nows :
          resp' = [op |-> "get_category_radar",
                   req |-> [state |-> NULL, mp |-> NULL, vendor |-> NULL, months |-> months,
                            from_date |-> from_date, to_date |-> to_date, limit |-> 50],
                   out |-> get_category_radar(db, NULL, NULL, NULL, months, from_date,
                                              to_date, 50, now)]
    /\ UNCHANGED <<db, jobvars>>

QueryCategoryRadarDrilldownWindow ==
    /\ resp = Idle
    /\ \E months \in WindowMonths, from_date \in WindowFromDates, to_date \in WindowToDates,
          now \in Nows :
          resp' = [op |-> "get_category_radar_drilldown",
                   req |-> [activity |-> "Roads", state |-> NULL, mp |-> NULL,
                            vendor |-> NULL, months |-> months,
                            from_date |-> from_date, to_date |-> to_date],
                   out |-> get_category_radar_drilldown(db, "Roads", NULL, NULL, NULL,
                                                        months, from_date, to_date, now)]
    /\ UNCHANGED <<db, jobvars>>

InitWindow == InitWith(WindowDatasets)

NextWindow ==
    \/ QueryCategoryRadarWindow
    \/ QueryCategoryRadarDrilldownWindow
    \/ Respond

SpecWindow == InitWindow /\ [][NextWindow]_vars

-----------------------------------------------------------------------------
(* Queries of every kind running while a refresh job runs *)

\* the state admin_refresh_db leaves once its response is sent: one job
\* queued, not yet started
InitQueries ==
    /\ db = OldDataset @@ [amount_type |-> "INTEGER"]
    /\ workdb = db
    /\ raw \in RawConfigs
    /\ refresh_jobs = NoJobs
    /\ \E do_fetch \in BOOLEAN :
          tasks = [j \in {1} |-> [pc |-> "queued", file |-> 1, do_fetch |-> do_fetch,
                                 force_fetch |-> FALSE, exc |-> NULL, loaded |-> {}]]
    /\ resp = Idle
    /\ txn = NoTxn

NextQueries ==
    \/ \E j \in JobIds : start_refresh_job(j)
    \/ Respond
    \/ QueryGlobalStats
    \/ QueryMpsList
    \/ QueryMpDetail
    \/ QueryMpInsights
    \/ QueryWorkTypeInsights
    \/ QueryVendorInsights
    \/ QueryBiasRankings
    \/ QueryCategoryRadar
    \/ QueryCategoryRadarDrilldown
    \/ TrendsSelectExpenditure
    \/ TrendsSelectCompleted

SpecQueries == InitQueries /\ [][NextQueries]_vars

-----------------------------------------------------------------------------
(* Vocabulary of the properties *)

RadarOps == {"get_category_radar", "get_category_radar_drilldown"}

Unset(p) == p = NULL \/ p = ""

\* the row is one the response's scope filters select
InScope(r, sc) ==
    /\ Unset(sc.state) \/ r.STATE_NAME = sc.state
    /\ Unset(sc.mp) \/ r.MP_NAME = sc.mp
    /\ sc.activity = NULL \/ r.ACTIVITY_NAME = sc.activity

InVendorScope(r, sc) == InScope(r, sc) /\ (Unset(sc.vendor) \/ r.VENDOR_NAME = sc.vendor)

Amt(r) == OrZero(r.FUND_DISBURSED_AMT)

\* the date text parses and lies within [from_dt, to_dt]
Admitted(rawdate, from_dt, to_dt) ==
    LET dt == parse_portal_date(rawdate)
    IN  dt # NoDate /\ dt_in_range(dt, from_dt, to_dt)

\* the record survives the range filter: it is not dated outside the range
Survives(rawdate, from_dt, to_dt) ==
    LET dt == parse_portal_date(rawdate)
    IN  dt = NoDate \/ dt_in_range(dt, from_dt, to_dt)

RangeActive == resp.out.from_dt # NoTS \/ resp.out.to_dt # NoTS

RECURSIVE SpentSum(_)
SpentSum(cs) == IF cs = <<>> THEN 0 ELSE Head(cs).spent + SpentSum(Tail(cs))

\* the date text parses to a plausible date: year >= 2000 and not after now
PlausibleDate(rawdate, now) ==
    LET dt == parse_portal_date(rawdate)
    IN  dt # NoDate /\ dt.y >= 2000 /\ TS(dt) <= now

MonthOf(rawdate) == safe_month_key(parse_portal_date(rawdate))

RECURSIVE SeriesSum(_)
SeriesSum(series) == IF series = <<>> THEN 0 ELSE Head(series).spent + SeriesSum(Tail(series))

Ok == resp # Idle /\ resp.out.status = 200

-----------------------------------------------------------------------------
(* Properties of the profile handlers *)

\* C2: get_mp_detail and get_mp_insights answer 404 (NotFound), never 500,
\* when the requested mp_name has no row in the allocated record set.
C2_MissingMpIsNotFound ==
    (/\ resp.op \in {"get_mp_detail", "get_mp_insights"}
     /\ ~\E i \in Idx(db.allocated) : db.allocated[i].MP_NAME = resp.req.mp_name)
        => resp.out.status = 404

\* C3: every reported utilization, completion and transparency metric is
\* exactly 0 when its denominator (allocated amount, recommended count,
\* completed count) is zero, null or missing, whatever the numerator.
C3_ZeroDenominatorGivesZero ==
    Ok =>
      /\ resp.op = "get_mps_list" =>
            \A i \in Idx(resp.out.mps) :
                LET e == resp.out.mps[i]
                IN  /\ OrZero(e.allocated) = 0 => e.utilization_rate = 0
                    /\ e.recommended_count = 0 => e.completion_rate = 0
                    /\ e.completed_count = 0 => e.transparency_score = 0
      /\ resp.op = "get_mp_detail" =>
            /\ OrZero(resp.out.allocated) = 0 => IsZero(resp.out.utilization)
            /\ resp.out.works_completed = 0 => IsZero(resp.out.transparency_score)
      /\ resp.op = "get_mp_insights" =>
            /\ OrZero(resp.out.allocated) = 0 => IsZero(resp.out.utilization_rate)
            /\ resp.out.recommended_works = 0 => IsZero(resp.out.completion_rate)
            /\ resp.out.completed_works = 0 => IsZero(resp.out.transparency_score)
      /\ resp.op = "get_global_stats" =>
            /\ OrZero(resp.out.total_allocated) = 0 => IsZero(resp.out.utilization_percentage)
            /\ resp.out.total_works_recommended = 0 => IsZero(resp.out.completion_percentage)
      /\ resp.op = "get_category_radar" =>
            \A i \in Idx(resp.out.categories) :
                LET c == resp.out.categories[i]
                IN  /\ c.recommended_works = 0 => IsZero(c.completion_pct)
                    /\ c.completed_works = 0 => IsZero(c.transparency_pct)
      /\ resp.op = "get_category_radar_drilldown" =>
            /\ resp.out.recommended_works = 0 => IsZero(resp.out.completion_pct)
            /\ resp.out.completed_works = 0 => IsZero(resp.out.transparency_pct)

\* the rows a profile handler selects, and its scalar total and monthly series
ProfileOps == {"get_work_type_insights", "get_vendor_insights", "get_mp_insights"}

ProfileSelects(r) ==
    IF resp.op = "get_work_type_insights" THEN r.ACTIVITY_NAME = resp.req.activity
    ELSE IF resp.op = "get_vendor_insights" THEN r.VENDOR_NAME = resp.req.vendor_name
    ELSE r.MP_NAME = resp.req.mp_name

ProfileTotal ==
    IF resp.op = "get_work_type_insights" THEN resp.out.total_spent
    ELSE IF resp.op = "get_vendor_insights" THEN resp.out.total_received
    ELSE resp.out.spent

ProfileSeries ==
    IF resp.op = "get_work_type_insights" THEN resp.out.monthly_spent
    ELSE IF resp.op = "get_vendor_insights" THEN resp.out.monthly_received
    ELSE resp.out.spending_trend

\* C4: in the work-type, vendor and MP profiles a record whose date does not
\* parse or is not plausible is left out of the monthly series, but its amount
\* is still part of the scalar total: the total is the sum over all selected
\* records, the series holds only the plausible ones.
C4_UndatedStillInTotal ==
    (Ok /\ resp.op \in ProfileOps) =>
        /\ ProfileTotal = SumWhere(db.expenditure, Amt, ProfileSelects)
        /\ SeriesSum(ProfileSeries) =
              SumWhere(db.expenditure, Amt,
                       LAMBDA r : ProfileSelects(r)
                                  /\ PlausibleDate(r.EXPENDITURE_DATE, resp.req.now))

\* C5: in get_work_type_insights the value of every month m of monthly_spent
\* is the sum of the amounts of the activity's records whose date is plausible
\* and falls in m, whatever the order of the records.
C5_MonthlyMatchesOwnRecords ==
    (Ok /\ resp.op = "get_work_type_insights") =>
        \A i \in Idx(resp.out.monthly_spent) :
            resp.out.monthly_spent[i].spent =
                SumWhere(db.expenditure, Amt,
                         LAMBDA r : /\ r.ACTIVITY_NAME = resp.req.activity
                                    /\ PlausibleDate(r.EXPENDITURE_DATE, resp.req.now)
                                    /\ MonthOf(r.EXPENDITURE_DATE) = resp.out.monthly_spent[i].month)

\* the month-keyed series of a response, and the records its handler selects
SeriesOps == ProfileOps \cup {"get_trends", "get_category_radar_drilldown"}

SeriesOf ==
    IF resp.op \in ProfileOps THEN ProfileSeries
    ELSE IF resp.op = "get_trends" THEN resp.out.series
    ELSE resp.out.monthly_spent

SeriesSelects(r) ==
    IF resp.op \in ProfileOps THEN ProfileSelects(r)
    ELSE IF resp.op = "get_trends" THEN resp.req.state = NULL \/ r.STATE_NAME = resp.req.state
    ELSE InVendorScope(r, resp.out.scope)

SeriesNow == IF resp.op = "get_category_radar_drilldown" THEN resp.out.now ELSE resp.req.now

\* C6: in every month-keyed series only records with a plausible date
\* contribute: each month of the series is the month of a selected record
\* (expenditure, or completion for get_trends) whose date parses, has year
\* >= 2000 and is not after now, and the month's amount is no more than the
\* amounts of such records.
C6_OnlyPlausibleDatesBucketed ==
    (Ok /\ resp.op \in SeriesOps) =>
        \A i \in Idx(SeriesOf) :
            LET m == SeriesOf[i].month
            IN  /\ \/ \E k \in Idx(db.expenditure) :
                        /\ SeriesSelects(db.expenditure[k])
                        /\ PlausibleDate(db.expenditure[k].EXPENDITURE_DATE, SeriesNow)
                        /\ MonthOf(db.expenditure[k].EXPENDITURE_DATE) = m
                   \/ /\ resp.op = "get_trends"
                      /\ \E k \in Idx(db.completed) :
                            /\ SeriesSelects(db.completed[k])
                            /\ PlausibleDate(db.completed[k].ACTUAL_END_DATE, SeriesNow)
                            /\ MonthOf(db.completed[k].ACTUAL_END_DATE) = m
                /\ SeriesOf[i].spent <=
                      SumWhere(db.expenditure, Amt,
                               LAMBDA r : /\ SeriesSelects(r)
                                          /\ PlausibleDate(r.EXPENDITURE_DATE, SeriesNow)
                                          /\ MonthOf(r.EXPENDITURE_DATE) = m)

-----------------------------------------------------------------------------
(* Properties of the category radar *)

\* C1: with a date range active, category radar and drilldown count only the
\* records whose date parses and lies in the range: the spend total and the
\* recommended, completed and proof counts are those of the admitted records.
C1_UnparsedDatesExcluded ==
    (resp.op \in RadarOps /\ RangeActive) =>
        /\ resp.out.total_spent =
              SumWhere(db.expenditure, Amt,
                       LAMBDA r : InVendorScope(r, resp.out.scope)
                                  /\ Admitted(r.EXPENDITURE_DATE, resp.out.from_dt, resp.out.to_dt))
        /\ (IF resp.op = "get_category_radar" THEN DictValueSum(resp.out.rec_counts)
            ELSE resp.out.recommended_works) =
              CountWhere(db.recommended,
                         LAMBDA r : InScope(r, resp.out.scope)
                                    /\ Admitted(r.RECOMMENDATION_DATE, resp.out.from_dt, resp.out.to_dt))
        /\ (IF resp.op = "get_category_radar" THEN DictValueSum(resp.out.comp_counts)
            ELSE resp.out.completed_works) =
              CountWhere(db.completed,
                         LAMBDA r : InScope(r, resp.out.scope)
                                    /\ Admitted(r.ACTUAL_END_DATE, resp.out.from_dt, resp.out.to_dt))

\* C7: in category radar and drilldown a surviving record without vendor or MP
\* is kept under a bucket of that dimension, so the per-vendor totals (and the
\* per-MP totals) add up to the spent total they belong to.
C7_MissingDimensionKept ==
    /\ resp.op = "get_category_radar" =>
          \A i \in Idx(resp.out.all_categories) :
              DictValueSum(resp.out.all_categories[i].vendor_spend) = resp.out.all_categories[i].spent
    /\ resp.op = "get_category_radar_drilldown" =>
          /\ DictValueSum(resp.out.vendor_spend) = resp.out.total_spent
          /\ DictValueSum(resp.out.mp_spend) = resp.out.total_spent

Terminal == {"succeeded", "failed"}

\* C9: a job's first recorded status is running; its status changes at most
\* once, from running to succeeded or to failed, and a succeeded or failed
\* status is never changed again; a registered job is never dropped.
C9_StatusLifecycle ==
    [][/\ \A j \in DOMAIN refresh_jobs' \ DOMAIN refresh_jobs :
             refresh_jobs'[j].status = "running"
       /\ \A j \in DOMAIN refresh_jobs :
             /\ j \in DOMAIN refresh_jobs'
             /\ \/ refresh_jobs'[j].status = refresh_jobs[j].status
                \/ /\ refresh_jobs[j].status = "running"
                   /\ refresh_jobs'[j].status \in Terminal]_vars

\* one job has ended succeeded and another has ended failed
C9_Witness ==
    \E j, k \in DOMAIN refresh_jobs :
        /\ At(j, "done") /\ refresh_jobs[j].status = "succeeded"
        /\ At(k, "done") /\ refresh_jobs[k].status = "failed"

\* C10: a job whose status is succeeded has reloaded all four tables from the
\* raw files; if the load of any table fails the job is not succeeded.
C10_SucceededLoadedAllTables ==
    \A j \in DOMAIN refresh_jobs :
        refresh_jobs[j].status = "succeeded" => tasks[j].loaded = TableSet

\* the record sets a query read, as one dataset restricted to those sets
ReadOf(D) == [expenditure |-> D.expenditure, completed |-> D.completed]

\* C11: a query that runs while a refresh job runs reads, across the record
\* sets it uses, the complete dataset from before the swap or the complete
\* dataset from after it, never old tables mixed with new ones.
C11_QueryReadsOneDataset ==
    (resp # Idle /\ resp.op = "get_trends")
        => (resp.read = ReadOf(resp.before) \/ resp.read = ReadOf(resp.after))

\* the exceptions the fetch of the upstream files or the load can raise
FetchOrLoadErrors == {"OSError"}

\* C12: a job started with do_fetch=true runs the fetch step, then the load
\* step, and ends succeeded when neither the fetch nor the load raises.
C12_FullRefreshSucceeds ==
    \A j \in DOMAIN refresh_jobs :
        (At(j, "done") /\ tasks[j].do_fetch /\ tasks[j].exc \notin FetchOrLoadErrors)
            => refresh_jobs[j].status = "succeeded"

-----------------------------------------------------------------------------
(* Properties of the category radar's lift and flags *)

RadarOk == resp # Idle /\ resp.op = "get_category_radar" /\ resp.out.status = 200

\* the request's scope is a state and nothing else
StateOnlyScope == ~Unset(resp.req.state) /\ Unset(resp.req.mp) /\ Unset(resp.req.vendor)

\* the scoped records, and all records, that the response's range keeps
ScopedKept(r) ==
    InVendorScope(r, resp.out.scope)
        /\ Survives(r.EXPENDITURE_DATE, resp.out.from_dt, resp.out.to_dt)

NationalKept(r) == Survives(r.EXPENDITURE_DATE, resp.out.from_dt, resp.out.to_dt)

OfCategory(r, activity) == ActivityOf(r.ACTIVITY_NAME) = activity

ShareOf(part, whole) == IF whole # 0 THEN Ratio(part, whole) ELSE Zero

\* the lift the specification prescribes for one category of the response
ExpectedLift(activity) ==
    LET E == db.expenditure
        scoped   == ShareOf(SumWhere(E, Amt, LAMBDA r : ScopedKept(r) /\ OfCategory(r, activity)),
                            SumWhere(E, Amt, ScopedKept))
        national == ShareOf(SumWhere(E, Amt, LAMBDA r : NationalKept(r) /\ OfCategory(r, activity)),
                            SumWhere(E, Amt, NationalKept))
    IN  IF national.num > 0
        THEN [defined |-> TRUE] @@ Ratio(scoped.num * national.den, scoped.den * national.num)
        ELSE NoLift

FlagsOf(code, activity) ==
    {k \in Idx(resp.out.flags) :
        resp.out.flags[k].code = code /\ resp.out.flags[k].activity = activity}

\* C14: unless the scope is state-only, no returned category has a lift
\* and no state_lift flag is emitted.
C14_NoLiftOutsideStateScope ==
    (RadarOk /\ ~StateOnlyScope) =>
        /\ \A i \in Idx(resp.out.categories) :
              ~resp.out.categories[i].lift_vs_national.defined
        /\ \A k \in Idx(resp.out.flags) : resp.out.flags[k].code # "state_lift"

\* a response for a state and a vendor whose category is large, is used by
\* at least five MPs, and has twice the share it has nationally
C14_Witness ==
    /\ RadarOk
    /\ ~Unset(resp.req.state) /\ ~Unset(resp.req.vendor) /\ Unset(resp.req.mp)
    /\ \E i \in Idx(resp.out.categories) :
          LET c == resp.out.categories[i]
          IN  /\ c.spent >= SpendThreshold /\ c.mp_count >= 5
              /\ ExpectedLift(c.activity).defined
              /\ RGeq(ExpectedLift(c.activity), 2)

\* C15: a flag with code category_vendor_concentration is emitted for a
\* returned category iff spent >= 2e7, top-3 vendor share >= 70% and at
\* least 3 distinct vendors; severity high from 85%, warning below.
C15_CategoryVendorConcentration ==
    RadarOk =>
        \A i \in Idx(resp.out.categories) :
            LET c == resp.out.categories[i]
                F == FlagsOf("category_vendor_concentration", c.activity)
            IN  /\ (F # {}) = (/\ c.spent >= SpendThreshold
                               /\ RGeq(c.top3_vendor_pct, 70)
                               /\ c.vendor_count >= 3)
                /\ \A k \in F :
                      resp.out.flags[k].severity
                          = IF RGeq(c.top3_vendor_pct, 85) THEN "high" ELSE "warning"

\* C20: a state_lift flag is emitted for a returned category iff its lift
\* is defined and >= 2, its spent >= 2e7 and its distinct MP count >= 5;
\* severity high from lift 3, warning below; no flag names a category that
\* was not returned.
C20_StateLiftFlag ==
    RadarOk =>
        /\ \A i \in Idx(resp.out.categories) :
              LET c == resp.out.categories[i]
                  l == c.lift_vs_national
                  F == FlagsOf("state_lift", c.activity)
              IN  /\ (F # {}) = (/\ l.defined /\ RGeq(l, 2)
                                 /\ c.spent >= SpendThreshold
                                 /\ c.mp_count >= 5)
                  /\ \A k \in F :
                        resp.out.flags[k].severity = IF RGeq(l, 3) THEN "high" ELSE "warning"
        /\ \A k \in Idx(resp.out.flags) :
              \E i \in Idx(resp.out.categories) :
                  resp.out.categories[i].activity = resp.out.flags[k].activity

\* a state_lift warning for a category of exactly 2e7 and five MPs whose
\* lift is exactly 2
C20_Witness ==
    /\ RadarOk
    /\ \E i \in Idx(resp.out.categories), k \in Idx(resp.out.flags) :
          LET c == resp.out.categories[i]
          IN  /\ resp.out.flags[k].code = "state_lift"
              /\ resp.out.flags[k].activity = c.activity
              /\ resp.out.flags[k].severity = "warning"
              /\ c.spent = SpendThreshold /\ c.mp_count = 5
              /\ c.lift_vs_national.num = 2 /\ c.lift_vs_national.den = 1

-----------------------------------------------------------------------------
(* Properties of the signals of get_mp_insights *)

MpOk == resp # Idle /\ resp.op = "get_mp_insights" /\ resp.out.status = 200

SignalsOf(code) == {k \in Idx(resp.out.signals) : resp.out.signals[k].code = code}

OfMp(r, mp) == r.MP_NAME # NULL /\ r.MP_NAME = mp

\* what an MP spent, and its counts of works, taken from the record sets
MpSpent(mp) == SumWhere(db.expenditure, Amt, LAMBDA r : OfMp(r, mp))

MpRecommended(mp) == CountWhere(db.recommended, LAMBDA r : OfMp(r, mp))

MpCompleted(mp) == CountWhere(db.completed, LAMBDA r : OfMp(r, mp))

MpProofs(mp) == CountWhere(db.completed, LAMBDA r : OfMp(r, mp) /\ r.ATTACH_ID # NULL)

RECURSIVE PctSum(_, _, _)
\* the sum over S of 100 * num[i] / den[i]
PctSum(S, num, den) ==
    IF S = {} THEN Zero
    ELSE LET i == CHOOSE x \in S : TRUE
         IN  RAdd(PctOrZero(num[i], den[i]), PctSum(S \ {i}, num, den))

\* the mean of 100 * num / den over the allocation records whose den is
\* positive, 0 when there is none
NationalAverage(num, den) ==
    LET S == {i \in Idx(db.allocated) : den[i] > 0}
    IN  IF S = {} THEN Zero ELSE RDivInt(PctSum(S, num, den), Cardinality(S))

NationalAvgUtilization ==
    NationalAverage([i \in Idx(db.allocated) |-> MpSpent(db.allocated[i].MP_NAME)],
                    [i \in Idx(db.allocated) |-> db.allocated[i].ALLOCATED_AMT])

NationalAvgCompletion ==
    NationalAverage([i \in Idx(db.allocated) |-> MpCompleted(db.allocated[i].MP_NAME)],
                    [i \in Idx(db.allocated) |-> MpRecommended(db.allocated[i].MP_NAME)])

NationalAvgTransparency ==
    NationalAverage([i \in Idx(db.allocated) |-> MpProofs(db.allocated[i].MP_NAME)],
                    [i \in Idx(db.allocated) |-> MpCompleted(db.allocated[i].MP_NAME)])

\* C16: a vendor_concentration signal is emitted iff the MP's top-3 vendor
\* share is >= 70% and its total spent is > 0; severity high from 85%,
\* warning below.
C16_VendorConcentrationSignal ==
    MpOk =>
        LET share == resp.out.vendor_concentration_top3_pct
            F     == SignalsOf("vendor_concentration")
        IN  /\ (F # {}) = (RGeq(share, 70) /\ MpSpent(resp.req.mp_name) > 0)
            /\ \A k \in F :
                  resp.out.signals[k].severity = IF RGeq(share, 85) THEN "high" ELSE "warning"

\* a warning for a share of exactly 70%
C16_Witness ==
    /\ MpOk
    /\ resp.out.vendor_concentration_top3_pct = Ratio(70, 1)
    /\ \E k \in SignalsOf("vendor_concentration") : resp.out.signals[k].severity = "warning"

\* C17: a low_transparency signal is emitted iff the MP's transparency score
\* is <= the national average transparency and it has more than 10
\* completed works; severity high up to 20%, warning above.
C17_LowTransparencySignal ==
    MpOk =>
        LET score == resp.out.transparency_score
            F     == SignalsOf("low_transparency")
        IN  /\ (F # {}) = (/\ RLeqR(score, NationalAvgTransparency)
                           /\ MpCompleted(resp.req.mp_name) > 10)
            /\ \A k \in F :
                  resp.out.signals[k].severity = IF RLeq(score, 20) THEN "high" ELSE "warning"

\* a warning for an MP of eleven completed works whose score is above 20%
\* and below a national average that another MP raises
C17_Witness ==
    /\ MpOk
    /\ MpCompleted(resp.req.mp_name) = MaxCompleted
    /\ ~RLeq(resp.out.transparency_score, 20)
    /\ resp.out.transparency_score # NationalAvgTransparency
    /\ \E k \in SignalsOf("low_transparency") : resp.out.signals[k].severity = "warning"

\* the MP's expenditure records whose work has a completion without proof
LinksToUnprovedWork(r) ==
    /\ r.WORK_RECOMMENDATION_DTL_ID # NULL
    /\ \E j \in Idx(db.completed) :
          /\ db.completed[j].WORK_RECOMMENDATION_DTL_ID = r.WORK_RECOMMENDATION_DTL_ID
          /\ ~HasProof(db.completed[j].ATTACH_ID)

SpentWithoutProof(mp) ==
    SumWhere(db.expenditure, Amt, LAMBDA r : OfMp(r, mp) /\ LinksToUnprovedWork(r))

\* C18: a spend_without_proof signal is emitted iff the spend on completed
\* works without proof, each expenditure record counted once, is >= 10% of
\* the total spend; severity high from 30%, warning below.
C18_SpendWithoutProofSignal ==
    MpOk =>
        LET total == MpSpent(resp.req.mp_name)
            ratio == PctOrZero(SpentWithoutProof(resp.req.mp_name), total)
            F     == SignalsOf("spend_without_proof")
        IN  /\ (F # {}) = (total > 0 /\ RGeq(ratio, 10))
            /\ \A k \in F :
                  resp.out.signals[k].severity = IF RGeq(ratio, 30) THEN "high" ELSE "warning"

\* C19: a spend_vs_completion signal is emitted iff utilization >= the
\* national average utilization, completion rate <= the national average
\* completion rate and total spent > 0; its severity is warning.
C19_SpendVsCompletionSignal ==
    MpOk =>
        LET F == SignalsOf("spend_vs_completion")
        IN  /\ (F # {}) = (/\ RLeqR(NationalAvgUtilization, resp.out.utilization_rate)
                           /\ RLeqR(resp.out.completion_rate, NationalAvgCompletion)
                           /\ MpSpent(resp.req.mp_name) > 0)
            /\ \A k \in F : resp.out.signals[k].severity = "warning"

-----------------------------------------------------------------------------
(* Properties of the category rules *)

\* the completed works of a category that the response's scope and range keep
CompletedKept(r, activity) ==
    /\ InScope(r, resp.out.scope)
    /\ Survives(r.ACTUAL_END_DATE, resp.out.from_dt, resp.out.to_dt)
    /\ OfCategory(r, activity)

CategoryCompleted(activity) ==
    CountWhere(db.completed, LAMBDA r : CompletedKept(r, activity))

CategoryProofs(activity) ==
    CountWhere(db.completed, LAMBDA r : CompletedKept(r, activity) /\ HasProof(r.ATTACH_ID))

CategoryTransparency(activity) ==
    PctOrZero(CategoryProofs(activity), CategoryCompleted(activity))

\* C21: a high_spend_low_transparency flag is emitted for a returned
\* category iff its spent >= 2e7, its completed works >= 10 and its
\* transparency <= 30%; severity high up to 15%, warning above.
C21_HighSpendLowTransparency ==
    RadarOk =>
        \A i \in Idx(resp.out.categories) :
            LET c == resp.out.categories[i]
                t == CategoryTransparency(c.activity)
                F == FlagsOf("high_spend_low_transparency", c.activity)
            IN  /\ (F # {}) = (/\ c.spent >= SpendThreshold
                               /\ CategoryCompleted(c.activity) >= 10
                               /\ RLeq(t, 30))
                /\ \A k \in F :
                      resp.out.flags[k].severity = IF RLeq(t, 15) THEN "high" ELSE "warning"

\* a warning for a category of exactly 2e7 with exactly ten completed works
\* of which three carry a proof
C21_Witness ==
    /\ RadarOk
    /\ \E i \in Idx(resp.out.categories), k \in Idx(resp.out.flags) :
          LET c == resp.out.categories[i]
          IN  /\ resp.out.flags[k].code = "high_spend_low_transparency"
              /\ resp.out.flags[k].activity = c.activity
              /\ resp.out.flags[k].severity = "warning"
              /\ c.spent = SpendThreshold
              /\ CategoryCompleted(c.activity) = 10 /\ CategoryProofs(c.activity) = 3

\* the rule tables, in evaluation order
SignalCodes ==
    <<"vendor_concentration", "spend_vs_completion", "low_transparency", "spend_without_proof">>

FlagCodes == <<"state_lift", "high_spend_low_transparency", "vendor_concentration">>

\* the position of a code in a rule table, 0 when it is not in it
RankIn(codes, code) ==
    IF \E n \in Idx(codes) : codes[n] = code
    THEN CHOOSE n \in Idx(codes) : codes[n] = code
    ELSE 0

\* the positions of a category among the returned categories
PlacesOf(activity) ==
    {i \in Idx(resp.out.categories) : resp.out.categories[i].activity = activity}

\* C22: each fired rule emits one flag per subject, in rule-table order: the
\* signals of get_mp_insights are a subsequence of vendor_concentration,
\* spend_vs_completion, low_transparency, spend_without_proof with no code
\* repeated; the flags of get_category_radar follow the returned categories,
\* which are in descending order of spent, and within one category the
\* order state_lift, high_spend_low_transparency, vendor concentration, with
\* no code repeated per category.
C22_FlagsInRuleOrder ==
    /\ MpOk =>
          LET S == resp.out.signals
          IN  /\ \A k \in Idx(S) : RankIn(SignalCodes, S[k].code) > 0
              /\ \A k, l \in Idx(S) :
                    k < l => RankIn(SignalCodes, S[k].code) < RankIn(SignalCodes, S[l].code)
    /\ RadarOk =>
          LET F == resp.out.flags
              C == resp.out.categories
          IN  /\ \A i, j \in Idx(C) : i < j => C[i].spent >= C[j].spent
              /\ \A i, j \in Idx(C) : i # j => C[i].activity # C[j].activity
              /\ \A k \in Idx(F) :
                    RankIn(FlagCodes, F[k].code) > 0 /\ PlacesOf(F[k].activity) # {}
              /\ \A k, l \in Idx(F) :
                    k < l =>
                        \A i \in PlacesOf(F[k].activity), j \in PlacesOf(F[l].activity) :
                            \/ i < j
                            \/ /\ i = j
                               /\ RankIn(FlagCodes, F[k].code) < RankIn(FlagCodes, F[l].code)

\* a response whose first category fires one rule and whose second, smaller
\* category fires all three
C22_Witness ==
    /\ RadarOk
    /\ Len(resp.out.categories) = 2
    /\ resp.out.categories[1].spent > resp.out.categories[2].spent
    /\ Len(resp.out.flags) = 4
    /\ resp.out.flags[1].activity = resp.out.categories[1].activity
    /\ \A k \in 2 .. 4 : /\ resp.out.flags[k].activity = resp.out.categories[2].activity
                         /\ resp.out.flags[k].code = FlagCodes[k - 1]

-----------------------------------------------------------------------------
(* Properties of the top-3 vendor share *)

\* the total of the expenditure records at the positions I that name vendor v
VendorTotal(I, v) ==
    SumSet({i \in I : db.expenditure[i].VENDOR_NAME = v},
           [i \in Idx(db.expenditure) |-> Amt(db.expenditure[i])])

\* 100 x (the three largest per-vendor totals, or all of them when there are
\* fewer than three) / (the total of the vendor amounts), 0 for a zero total
Top3Share(I) ==
    LET V     == {db.expenditure[i].VENDOR_NAME : i \in I}
        total == SumSet(V, [v \in V |-> VendorTotal(I, v)])
        triples == {T \in SUBSET V : Cardinality(T) = 3}
        sums  == {SumSet(T, [v \in V |-> VendorTotal(I, v)]) : T \in triples}
        top   == IF Cardinality(V) < 3 THEN total
                 ELSE CHOOSE x \in sums : \A y \in sums : x >= y
    IN  PctOrZero(top, total)

\* C23: the top-3 vendor share of a category of get_category_radar and of
\* the MP of get_mp_insights is 100 x the sum of the three largest
\* per-vendor totals (all of them when fewer than three) divided by the
\* total of the vendor amounts, 0 when that total is 0, whatever the order
\* of vendors with equal totals.
C23_Top3VendorShare ==
    /\ RadarOk =>
          \A n \in Idx(resp.out.categories) :
              LET c == resp.out.categories[n]
              IN  c.top3_vendor_pct =
                      Top3Share({i \in Idx(db.expenditure) :
                                    /\ ScopedKept(db.expenditure[i])
                                    /\ OfCategory(db.expenditure[i], c.activity)})
    /\ MpOk =>
          resp.out.vendor_concentration_top3_pct =
              Top3Share({i \in Idx(db.expenditure) : OfMp(db.expenditure[i], resp.req.mp_name)})

-----------------------------------------------------------------------------
(* Properties of the queries as a whole *)

QueryOps ==
    {"get_global_stats", "get_mps_list", "get_mp_detail", "get_mp_insights",
     "get_work_type_insights", "get_vendor_insights", "get_bias_rankings",
     "get_category_radar", "get_category_radar_drilldown", "get_trends"}

\* what a query returns on dataset D for the request q, as a function of
\* the request, the dataset and the clock only
ResultOn(D, op, q, now) ==
    CASE op = "get_global_stats" -> get_global_stats(D)
      [] op = "get_mps_list" -> get_mps_list(D, q.limit, q.sort_by)
      [] op = "get_mp_detail" -> get_mp_detail(D, q.mp_name)
      [] op = "get_mp_insights" -> get_mp_insights(D, q.mp_name, now)
      [] op = "get_work_type_insights" -> get_work_type_insights(D, q.activity, now)
      [] op = "get_vendor_insights" -> get_vendor_insights(D, q.vendor_name, now)
      [] op = "get_bias_rankings" -> get_bias_rankings(D, q.state)
      [] op = "get_category_radar" ->
            get_category_radar(D, q.state, q.mp, q.vendor, q.months, q.from_date,
                               q.to_date, q.limit, now)
      [] op = "get_category_radar_drilldown" ->
            get_category_radar_drilldown(D, q.activity, q.state, q.mp, q.vendor, q.months,
                                         q.from_date, q.to_date, now)
      [] op = "get_trends" -> get_trends(D, q.months, q.state, now)

ClockOf(r) == IF r.op \in RadarOps THEN r.out.now
              ELSE IF r.op \in {"get_global_stats", "get_mps_list", "get_mp_detail",
                                "get_bias_rankings"} THEN 0
              ELSE r.req.now

-----------------------------------------------------------------------------
(* Properties of _parse_portal_date *)

\* the calendar date a stripped text denotes when read in one format, NoDate
\* when the text does not have that format or denotes no calendar date
DateAs(t, fmt) ==
    IF ~MatchesFormat(t, fmt) THEN NoDate
    ELSE LET day   == IF fmt = "Y-m-d" THEN t[5].val ELSE t[1].val
             year  == IF fmt = "Y-m-d" THEN t[1].val
                      ELSE IF fmt = "d-b-y"
                      THEN (IF t[5].val >= 69 THEN 1900 + t[5].val ELSE 2000 + t[5].val)
                      ELSE t[5].val
         IN  IF ValidYMD(year, t[3].val, day) THEN [y |-> year, m |-> t[3].val, d |-> day]
             ELSE NoDate

FormatOrder == <<"d-b-Y", "d-b-y", "d/m/Y", "Y-m-d">>

\* C25: _parse_portal_date returns None for a null, empty or whitespace-only
\* value and for 'nan' in any letter case; otherwise the result of the first
\* of the formats d-b-Y, d-b-y, d/m/Y, Y-m-d that parses the whole stripped
\* value, and None when none does; '09-Jan-2026' gives 2026-01-09 and
\* '31-13-2026' gives None.
C25_ParsePortalDate ==
    (resp # Idle /\ resp.op = "_parse_portal_date") =>
        LET value == resp.req.value
            t     == IF value = NullText THEN <<>> ELSE Strip(value)
            parsing == {i \in 1 .. 4 : DateAs(t, FormatOrder[i]) # NoDate}
            first == CHOOSE i \in parsing : \A j \in parsing : i <= j
        IN  /\ (t = <<>> \/ (Len(t) = 1 /\ t[1].k = "nan")) => resp.out = NoDate
            /\ (t # <<>> /\ parsing = {}) => resp.out = NoDate
            /\ parsing # {} => resp.out = DateAs(t, FormatOrder[first])
            /\ t = <<Tok("num", 2, 9), Tok("-", 0, 0), Tok("mon", 0, 1), Tok("-", 0, 0),
                     Tok("num", 4, 2026)>> => resp.out = [y |-> 2026, m |-> 1, d |-> 9]
            /\ t = <<Tok("num", 2, 31), Tok("-", 0, 0), Tok("num", 2, 13), Tok("-", 0, 0),
                     Tok("num", 4, 2026)>> => resp.out = NoDate

\* ' 2026-9-29 ' read as 29 September 2026
C25_Witness ==
    /\ resp # Idle /\ resp.op = "_parse_portal_date"
    /\ Len(resp.req.value) = 5 + 2 * MaxPad
    /\ MatchesFormat(Strip(resp.req.value), "Y-m-d")
    /\ resp.out = [y |-> 2026, m |-> 9, d |-> 29]

-----------------------------------------------------------------------------
(* Properties of the job registry as the status endpoint shows it *)

\* an authorized status call for a job_id that admin_refresh_db returned
StatusCallFor(j) ==
    /\ resp # Idle /\ resp.op = "admin_refresh_db_status"
    /\ resp.req.job_id = j /\ resp.out.status # 401
    /\ j \in DOMAIN tasks

\* C26: once admin_refresh_db has returned a job_id, every later authorized
\* admin_refresh_db_status call with that job_id returns the job's record,
\* never 404, also before the background task has started.
C26_StatusKnowsReturnedJob ==
    \A j \in JobIds :
        StatusCallFor(j) =>
            /\ resp.out.status = 200
            /\ resp.out.job.job_id = j

\* C27: every job record returned by admin_refresh_db_status is consistent:
\* finished_at is set exactly when the status is succeeded or failed, and
\* error is set exactly when the status is failed.
C27_ObservedRecordConsistent ==
    (resp # Idle /\ resp.op = "admin_refresh_db_status" /\ resp.out.status = 200) =>
        LET job == resp.out.job
        IN  /\ (job.finished_at # NULL) <=> (job.status \in Terminal)
            /\ (job.error # NULL) <=> (job.status = "failed")

\* C28: every job that has begun executing eventually leaves running: its
\* status becomes succeeded or failed and its finished_at is set, with or
\* without an exception.
C28_JobEventuallyFinishes ==
    \A j \in JobIds :
        (j \in DOMAIN refresh_jobs)
            ~> (/\ j \in DOMAIN refresh_jobs
                /\ refresh_jobs[j].status \in Terminal
                /\ refresh_jobs[j].finished_at # NULL)

\* a job ended by an exception, and another ended without one
C28_Witness ==
    \E j, k \in DOMAIN refresh_jobs :
        /\ At(j, "done") /\ refresh_jobs[j].status = "failed"
        /\ refresh_jobs[j].finished_at # NULL
        /\ At(k, "done") /\ refresh_jobs[k].status = "succeeded"
        /\ refresh_jobs[k].finished_at # NULL

-----------------------------------------------------------------------------
(* Properties of the date window *)

WindowOk ==
    /\ resp # Idle
    /\ resp.op \in {"get_category_radar", "get_category_radar_drilldown"}
    /\ resp.out.status = 200

\* a calendar date given as day, month and four-digit year, in half days
Dated(v) == 2 * Ordinal([y |-> v.y, m |-> v.m, d |-> v.d])

Given(v) == v.fmt # "null"

WindowActive(q) == q.months # NullAmt /\ q.months > 0

\* now - 31 x months days
MonthsCutoff(q, now) == now - 2 * 31 * q.months

\* the date lies within the bounds the request sets, both inclusive
InWindow(date, q, now) ==
    /\ Given(q.from_date) => Dated(date) >= Dated(q.from_date)
    /\ WindowActive(q) => Dated(date) >= MonthsCutoff(q, now)
    /\ Given(q.to_date) => Dated(date) <= Dated(q.to_date)

\* C29: in get_category_radar and get_category_radar_drilldown the lower
\* date bound is the later of from_date and now - 31 x months days when
\* months > 0, from_date alone when months is null or <= 0; the upper bound
\* is to_date; both are inclusive; a from_date earlier than the months cutoff
\* admits no record dated before the cutoff.
C29_EffectiveDateWindow ==
    WindowOk =>
        LET q   == resp.req
            now == resp.out.now
        IN  /\ resp.out.total_spent =
                  SumWhere(db.expenditure, Amt,
                           LAMBDA r : InWindow(r.EXPENDITURE_DATE, q, now))
            /\ resp.op = "get_category_radar_drilldown" =>
                  /\ resp.out.recommended_works =
                        CountWhere(db.recommended,
                                   LAMBDA r : InWindow(r.RECOMMENDATION_DATE, q, now))
                  /\ resp.out.completed_works =
                        CountWhere(db.completed,
                                   LAMBDA r : InWindow(r.ACTUAL_END_DATE, q, now))

\* from_date 1 December with months = 1: the records of 16 December and
\* later are counted, those of 1 to 15 December are not
C29_Witness ==
    /\ WindowOk
    /\ resp.req.months = 1
    /\ resp.req.from_date = Iso(2025, 12, 1)
    /\ resp.req.to_date = NullDate
    /\ db.expenditure = WindowExpRows
    /\ resp.out.total_spent = 32 + 64 + 128 + 256 + 512

-----------------------------------------------------------------------------
(* Properties of the lift in a state-only scope *)

\* no stored amount is negative (a null amount counts as 0)
NonNegativeAmounts == \A i \in Idx(db.expenditure) : Amt(db.expenditure[i]) >= 0

\* C30: in get_category_radar with a state-only scope and non-negative
\* amounts, every returned category with spent > 0 has a defined
\* lift_vs_national.
C30_SpentCategoryHasLift ==
    (RadarOk /\ StateOnlyScope /\ NonNegativeAmounts) =>
        \A i \in Idx(resp.out.categories) :
            resp.out.categories[i].spent > 0
                => resp.out.categories[i].lift_vs_national.defined

\* a state-only response whose categories all have spent > 0 and a lift,
\* one of them the "(Unknown)" category, one spent in other states as well
C30_Witness ==
    /\ RadarOk /\ StateOnlyScope /\ NonNegativeAmounts
    /\ Len(resp.out.categories) >= 2
    /\ \A i \in Idx(resp.out.categories) :
          /\ resp.out.categories[i].spent > 0
          /\ resp.out.categories[i].lift_vs_national.defined
    /\ \E i, j \in Idx(resp.out.categories) :
          /\ resp.out.categories[i].activity = "(Unknown)"
          /\ \E k \in Idx(db.expenditure) :
                /\ OfCategory(db.expenditure[k], resp.out.categories[j].activity)
                /\ NationalKept(db.expenditure[k]) /\ ~ScopedKept(db.expenditure[k])
                /\ Amt(db.expenditure[k]) > 0

====
